---- MODULE Spec2Model ----
(***************************************************************************)
(* A model of open-octopus: the time-of-day rate schedule, the dispatch    *)
(* reconciler, the saving-session filter and the consumption aggregation   *)
(* of the Octopus Energy client, its JSON server and its menu-bar app.     *)
(*                                                                         *)
(* Time.  A naive datetime (datetime.now()) is an integer number of ticks  *)
(* since midnight of day 0 of the model; a second holds TicksPerSecond     *)
(* ticks, which stand for the microseconds of a Python datetime.           *)
(***************************************************************************)
EXTENDS Integers, Sequences, FiniteSets

VARIABLES
    now,        \* datetime.now() of the host: a naive local datetime, in ticks
    utcOffset,  \* the UTC offset of the host's local time zone, in ticks
    tariff,     \* Optional[Tariff]: what get_tariff returned
    rate,       \* Some(the Rate returned by get_current_rate), None before the call
    plannedDispatches,  \* the plannedDispatches records of the GraphQL response
    dispatch,   \* Some(the DispatchStatus of get_dispatch_status), None before the call
    savingSessionEvents,    \* the savingSessions.events records of the GraphQL response
    sessions,   \* Some(the list get_saving_sessions returned), None before the call
    consumption,    \* the list of Consumption readings get_consumption returned
    buckets,    \* fetch_data's locals daily, hourly_by_day, half_hourly_by_day
    result,     \* Some(the dict fetch_data returned), None before the call
    mbBuckets,  \* _refresh's locals daily, hourly_by_day
    menubar,    \* the OctopusMenuBar fields _refresh assigns
    dispatchesReturn,   \* Some(the list get_dispatches returned), None before the call
    consumptionResults, \* the "results" records of the consumption response
    consumptionReturn,  \* how get_consumption ended: None before the call
    token,          \* OctopusClient._token, None when unset
    tokenExpires,   \* OctopusClient._token_expires, None when unset
    callers,        \* where each concurrent caller of _get_token stands
    fields,         \* per data category of the menu bar, the refresh that assigned it
    refreshStep,    \* the next call of the _refresh in progress, 0 when none runs
    generation,     \* the number of refreshes the menu bar has started
    titleView,      \* the fields as _update_title last read them, None before
    serverStep,     \* the next call of the fetch_data in progress, 0 when none runs
    serverResult,   \* per data category, the fetch_data that set it in its result dict
    serverGeneration,   \* the number of fetch_data calls the server has started
    stdout,         \* the snapshot the server last wrote to stdout, None before
    stdinLines,     \* the lines the server's stdin will deliver, end of input after them
    linesRead,      \* how many of them run() has read
    emitted,        \* the JSON objects run() has written to stdout, in order
    runState,       \* where run() stands: "start", "reading", "handling", "stopped"
    hasAgent,       \* HAS_AGENT: whether the agent module could be imported
    accountBalance, \* the balance of the account in pence, as the API reports it
    serverBalance,  \* the balance keys of the server's snapshot, None before a fetch
    balanceItem,    \* the balance item of the menu, None while it shows "Loading..."
    http,           \* self._http of the app's client: None or the session it holds
    sessionsMade,   \* how many httpx.AsyncClient sessions were created so far
    released,       \* the sessions closed or dropped by an __aexit__, and by whom
    refreshers      \* per refresh thread: its position, requests sent, session in use

envVars == <<now, utcOffset, tariff>>
dispatchVars == <<plannedDispatches, dispatchesReturn, dispatch>>
sessionVars == <<savingSessionEvents, sessions>>
serverVars == <<buckets, result>>
menubarVars == <<mbBuckets, menubar>>
usageVars == <<consumption, serverVars, menubarVars>>

clientVars == <<consumptionResults, consumptionReturn, token, tokenExpires, callers>>
appVars ==
    <<fields, refreshStep, generation, titleView,
      serverStep, serverResult, serverGeneration, stdout>>

runVars == <<stdinLines, linesRead, emitted, runState, hasAgent>>
balanceVars == <<accountBalance, serverBalance, balanceItem>>
httpVars == <<http, sessionsMade, released, refreshers>>
restVars == <<runVars, balanceVars, httpVars>>

vars == <<envVars, rate, dispatchVars, sessionVars, usageVars, clientVars, appVars, restVars>>

\* Optional[T]: None is the empty tuple, a present value v is Some(v) = <<v>>
None == <<>>
Some(v) == <<v>>
Val(x) == x[1]

\* the parts of the state a specification does not exercise
RateIdle == rate = None
DispatchIdle == plannedDispatches = <<>> /\ dispatchesReturn = None /\ dispatch = None
SessionsIdle == savingSessionEvents = <<>> /\ sessions = None

\* a dict with no key
EmptyDict == <<>>

\* OctopusMenuBar.__init__: the fields before the first refresh
MenuBarInit ==
    [latest_kwh |-> 0, latest_cost |-> 0, latest_day |-> <<>>,
     last_refresh |-> None, hourly_usage |-> <<>>]

UsageIdle ==
    /\ consumption = <<>>
    /\ buckets = None /\ result = None
    /\ mbBuckets = None /\ menubar = MenuBarInit

ClientIdle ==
    /\ consumptionResults = <<>> /\ consumptionReturn = None
    /\ token = None /\ tokenExpires = None /\ callers = <<>>

RunIdle ==
    /\ stdinLines = <<>> /\ linesRead = 0 /\ emitted = <<>> /\ runState = "start"
    /\ hasAgent = FALSE

BalanceIdle == accountBalance = 0 /\ serverBalance = None /\ balanceItem = None

HttpIdle == http = None /\ sessionsMade = 0 /\ released = {} /\ refreshers = <<>>

RestIdle == RunIdle /\ BalanceIdle /\ HttpIdle

AppIdle ==
    /\ fields = <<>> /\ refreshStep = 0 /\ generation = 0 /\ titleView = None
    /\ serverStep = 0 /\ serverResult = <<>> /\ serverGeneration = 0 /\ stdout = None

-----------------------------------------------------------------------------
(* Bounds of the model *)

\* sub-second ticks 0..MaxMicro stand for the microseconds 0..999999
MaxMicro == 1
\* the calendar days 0..MaxDay on which "now" may fall
MaxDay == 1
\* the longest list of records one API response holds
MaxRecords == 2
\* the longest list of consumption readings, the full day of C10 apart
MaxSamples == 2
\* the threads (or tasks) that call the client at the same time
MaxCallers == 2
\* the half hours the clock advances while tokens are obtained
MaxHalfHours == 3
\* the refreshes the menu bar starts, and the fetch_data calls the server makes
MaxRefreshes == 2

-----------------------------------------------------------------------------
(* datetime arithmetic *)

TicksPerSecond == MaxMicro + 1
TicksPerMinute == 60 * TicksPerSecond
TicksPerHour == 60 * TicksPerMinute
TicksPerDay == 24 * TicksPerHour

\* datetime(day, hour, minute, second, microsecond)
MkDateTime(d, h, m, s, us) ==
    d * TicksPerDay + h * TicksPerHour + m * TicksPerMinute + s * TicksPerSecond + us

DateOf(t) == t \div TicksPerDay
HourOf(t) == (t % TicksPerDay) \div TicksPerHour
MinuteOf(t) == (t % TicksPerHour) \div TicksPerMinute
SecondOf(t) == (t % TicksPerMinute) \div TicksPerSecond
MicroOf(t) == t % TicksPerSecond

\* dt.replace(hour=h, minute=m, second=s): date and microseconds are kept
Replace(t, h, m, s) == MkDateTime(DateOf(t), h, m, s, MicroOf(t))

\* timedelta(days=n), timedelta(seconds=n), timedelta(minutes=n)
Days(n) == n * TicksPerDay
Seconds(n) == n * TicksPerSecond
Minutes(n) == n * TicksPerMinute

\* the sequences over S of length at most n
SeqUpTo(S, n) == UNION { [1..k -> S] : k \in 0..n }

-----------------------------------------------------------------------------
(* Strings: a str is a sequence of code points, compared as Python does *)

Digit(n) == 48 + n
Colon == <<58>>

\* a < b on str: lexicographic on code points, a proper prefix is smaller
StrLess(a, b) ==
    \E i \in 1..(Len(b)) :
        /\ \A j \in 1..(i - 1) : j <= Len(a) /\ a[j] = b[j]
        /\ \/ i = Len(a) + 1
           \/ i <= Len(a) /\ a[i] < b[i]

StrGE(a, b) == ~StrLess(a, b)

\* now.strftime("%H:%M")
strftime_HM(t) ==
    <<Digit(HourOf(t) \div 10), Digit(HourOf(t) % 10)>> \o Colon \o
    <<Digit(MinuteOf(t) \div 10), Digit(MinuteOf(t) % 10)>>

\* the literals "23:30" and "05:30"
Str2330 == <<Digit(2), Digit(3)>> \o Colon \o <<Digit(3), Digit(0)>>
Str0530 == <<Digit(0), Digit(5)>> \o Colon \o <<Digit(3), Digit(0)>>

-----------------------------------------------------------------------------
(* RateSchedule: OctopusClient.get_current_rate *)

DefaultOffPeakRate == 7
DefaultPeakRate == 30

\* Python's "x or d": d when x is None or 0
PyOr(x, d) == IF x = None \/ Val(x) = 0 THEN d ELSE Val(x)

\* mutant: the window start excluded (">" for ">=")
IsOffPeakStartExcluded(current_time) ==
    StrLess(Str2330, current_time) \/ StrLess(current_time, Str0530)

\* is_off_peak = current_time >= "23:30" or current_time < "05:30"
IsOffPeak(current_time) ==
    StrGE(current_time, Str2330) \/ StrLess(current_time, Str0530)

\* mutant: the evening branch forgets the timedelta(days=1)
OffPeakPeriodEndSameDay(t, current_time) ==
    Replace(t, 5, 30, 0)

\* period_end of the off-peak band
OffPeakPeriodEnd(t, current_time) ==
    IF StrGE(current_time, Str2330)
    THEN Replace(t + Days(1), 5, 30, 0)
    ELSE Replace(t, 5, 30, 0)

\* period_end of the peak band
PeakPeriodEnd(t) ==
    LET period_end == Replace(t, 23, 30, 0)
    IN  IF t >= period_end THEN period_end + Days(1) ELSE period_end

get_current_rate(tf, t) ==
    LET current_time == strftime_HM(t)
    IN  IF IsOffPeak(current_time)
        THEN [rate |-> PyOr(tf.off_peak_rate, DefaultOffPeakRate),
              is_off_peak |-> TRUE,
              period_end |-> OffPeakPeriodEnd(t, current_time),
              next_rate |-> PyOr(tf.peak_rate, DefaultPeakRate)]
        ELSE [rate |-> PyOr(tf.peak_rate, DefaultPeakRate),
              is_off_peak |-> FALSE,
              period_end |-> PeakPeriodEnd(t),
              next_rate |-> PyOr(tf.off_peak_rate, DefaultOffPeakRate)]

-----------------------------------------------------------------------------
(* Inputs of the rate schedule *)

\* the seconds of a minute at which the clock is read
ClockSeconds == {0, 1, 59}

ClockReadings ==
    { MkDateTime(d, h, m, s, us) :
        d \in 0..MaxDay, h \in 0..23, m \in 0..59, s \in ClockSeconds, us \in 0..MaxMicro }

\* get_tariff files a unit rate under off-peak when it is below 15, else under peak
OffPeakRates == {None, Some(0), Some(9)}
PeakRates == {None, Some(35)}

Tariffs ==
    [off_peak_rate : OffPeakRates, peak_rate : PeakRates, standing_charge : {50}]

InitRate ==
    /\ now \in ClockReadings
    /\ utcOffset = 0
    /\ RestIdle
    /\ ClientIdle
    /\ AppIdle
    /\ tariff \in { Some(tf) : tf \in Tariffs }
    /\ rate = None
    /\ DispatchIdle
    /\ SessionsIdle
    /\ UsageIdle

\* one call of get_current_rate(tariff) at the instant now
GetCurrentRate ==
    /\ rate = None
    /\ rate' = Some(get_current_rate(Val(tariff), now))
    /\ UNCHANGED <<envVars, restVars, clientVars, appVars, dispatchVars, sessionVars, usageVars>>

NextRate == GetCurrentRate

SpecRate == InitRate /\ [][NextRate]_vars

-----------------------------------------------------------------------------
(* Claims about the rate schedule *)

TimeOfDay(t) == t % TicksPerDay

\* T in [23:30, 24:00) or [00:00, 05:30), by the clock's arithmetic
InOffPeakWindow(t) ==
    \/ TimeOfDay(t) >= MkDateTime(0, 23, 30, 0, 0)
    \/ TimeOfDay(t) < MkDateTime(0, 5, 30, 0, 0)

\* C1: get_current_rate reports is_off_peak = true exactly when the time of day
\* is in [23:30, 24:00) or [00:00, 05:30); 23:30 is off-peak and 05:30 is peak.
C1_OffPeakWindow ==
    rate # None =>
        /\ Val(rate).is_off_peak <=> InOffPeakWindow(now)
        /\ TimeOfDay(now) = MkDateTime(0, 23, 30, 0, 0) => Val(rate).is_off_peak
        /\ TimeOfDay(now) = MkDateTime(0, 5, 30, 0, 0) => ~Val(rate).is_off_peak

C1_Witness ==
    /\ rate # None
    /\ TimeOfDay(now) = MkDateTime(0, 23, 30, 0, 0)
    /\ Val(rate).is_off_peak

\* C2: period_end is strictly later than now, and the band get_current_rate
\* reports one second before period_end is the band it reported at now.
C2_PeriodEnd ==
    rate # None =>
        /\ Val(rate).period_end > now
        /\ get_current_rate(Val(tariff), Val(rate).period_end - Seconds(1)).is_off_peak
               = Val(rate).is_off_peak

C2_Witness ==
    /\ rate # None
    /\ HourOf(now) = 23 /\ MinuteOf(now) = 45
    /\ Val(rate).is_off_peak
    /\ DateOf(Val(rate).period_end) = DateOf(now) + 1

-----------------------------------------------------------------------------
(* Offset-aware datetimes and ISO 8601 strings *)

\* An aware datetime is its wall-clock reading and its UTC offset, both in ticks.
Aware(wall, off) == [wall |-> wall, off |-> off]

\* the instant of an aware datetime, as UTC ticks
Instant(dt) == dt.wall - dt.off

\* a <= b and a < b on aware datetimes: Python compares their instants
AwareLE(a, b) == Instant(a) <= Instant(b)
AwareLess(a, b) == Instant(a) < Instant(b)

\* naive.astimezone(tz): the naive reading is taken as the host's local time
astimezone(t, tzoff) == Aware(t - utcOffset + tzoff, tzoff)

\* dt.replace(tzinfo=None): the wall-clock reading, the offset dropped
StripTz(dt) == dt.wall

\* A timestamp string of the API is its wall-clock reading and its zone suffix;
\* a suffix that is neither "Z" nor in ZoneSuffixes makes the string unparseable.
IsoString(wall, zone) == [wall |-> wall, zone |-> zone]
ZoneSuffixes == {"+00:00", "+01:00"}
ZoneOffset(zone) == IF zone = "+01:00" THEN Minutes(60) ELSE 0
Unparseable == IsoString(0, "?")

\* s.replace("Z", "+00:00")
ReplaceZ(s) == IF s.zone = "Z" THEN [s EXCEPT !.zone = "+00:00"] ELSE s

\* datetime.fromisoformat(s) raises ValueError on anything but an ISO string
FromIsoRaises(s) == s.zone \notin ZoneSuffixes
fromisoformat(s) == Aware(s.wall, ZoneOffset(s.zone))

\* r[key] raises KeyError when the record has no such key (the field is None here)
KeyMissing(field) == field = None

-----------------------------------------------------------------------------
(* DispatchReconciler: OctopusClient.get_dispatches, get_dispatch_status *)

\* the try block of get_dispatches raises ValueError or KeyError on this record
DispatchRaises(d) ==
    \/ KeyMissing(d.start) \/ FromIsoRaises(ReplaceZ(Val(d.start)))
    \/ KeyMissing(d.end) \/ FromIsoRaises(ReplaceZ(Val(d.end)))

ParseDispatch(d) ==
    [start |-> fromisoformat(ReplaceZ(Val(d.start))),
     end |-> fromisoformat(ReplaceZ(Val(d.end)))]

\* mutant: the loop ends at the first record that raises
RECURSIVE ParsedDispatchesUntilMalformed(_)
ParsedDispatchesUntilMalformed(raw) ==
    IF raw = <<>> THEN <<>>
    ELSE IF DispatchRaises(raw[1]) THEN <<>>
    ELSE <<ParseDispatch(raw[1])>> \o ParsedDispatchesUntilMalformed(Tail(raw))

\* the records of a list that parse, in the list's order
RECURSIVE ParsedDispatches(_)
ParsedDispatches(raw) ==
    IF raw = <<>> THEN <<>>
    ELSE LET front == ParsedDispatches(SubSeq(raw, 1, Len(raw) - 1))
             d == raw[Len(raw)]
         IN  IF DispatchRaises(d) THEN front ELSE Append(front, ParseDispatch(d))

\* x put into a list sorted by start, after every element that starts no later
RECURSIVE InsertByStart(_, _)
InsertByStart(s, x) ==
    IF s = <<>> THEN <<x>>
    ELSE IF AwareLess(x.start, s[Len(s)].start)
         THEN Append(InsertByStart(SubSeq(s, 1, Len(s) - 1), x), s[Len(s)])
         ELSE Append(s, x)

\* sorted(xs, key=lambda x: x.start): a stable sort
RECURSIVE SortedByStart(_)
SortedByStart(xs) ==
    IF xs = <<>> THEN <<>>
    ELSE InsertByStart(SortedByStart(SubSeq(xs, 1, Len(xs) - 1)), xs[Len(xs)])

get_dispatches(raw) == SortedByStart(ParsedDispatches(raw))

\* mutant: a half-open interval, the end excluded
ContainsNowHalfOpen(d, now_tz) ==
    AwareLE(d.start, now_tz) /\ AwareLess(now_tz, d.end)

\* d.start <= now_tz <= d.end
ContainsNow(d, now_tz) ==
    AwareLE(d.start, now_tz) /\ AwareLE(now_tz, d.end)

\* mutant: the first containing interval is kept as current
ScanStepFirstCurrent(acc, d, t) ==
    LET now_tz == astimezone(t, d.start.off)
    IN  IF ContainsNow(d, now_tz)
        THEN IF acc.current = None THEN [acc EXCEPT !.current = Some(d)] ELSE acc
        ELSE IF AwareLess(now_tz, d.start) /\ acc.next = None
             THEN [acc EXCEPT !.next = Some(d)]
             ELSE acc

\* mutant: no next dispatch is recorded once a current one is found
ScanStepNoNextAfterCurrent(acc, d, t) ==
    LET now_tz == astimezone(t, d.start.off)
    IN  IF ContainsNow(d, now_tz)
        THEN [acc EXCEPT !.current = Some(d)]
        ELSE IF AwareLess(now_tz, d.start) /\ acc.next = None /\ acc.current = None
             THEN [acc EXCEPT !.next = Some(d)]
             ELSE acc

\* mutant: the guard "next_dispatch is None" dropped
ScanStepLastNext(acc, d, t) ==
    LET now_tz == astimezone(t, d.start.off)
    IN  IF ContainsNow(d, now_tz)
        THEN [acc EXCEPT !.current = Some(d)]
        ELSE IF AwareLess(now_tz, d.start)
             THEN [acc EXCEPT !.next = Some(d)]
             ELSE acc

\* one iteration of "for d in dispatches"
ScanStep(acc, d, t) ==
    LET now_tz == astimezone(t, d.start.off)
    IN  IF ContainsNow(d, now_tz)
        THEN [acc EXCEPT !.current = Some(d)]
        ELSE IF AwareLess(now_tz, d.start) /\ acc.next = None
             THEN [acc EXCEPT !.next = Some(d)]
             ELSE acc

\* the loop over the first n dispatches
RECURSIVE ScanDispatches(_, _, _)
ScanDispatches(ds, n, t) ==
    IF n = 0 THEN [current |-> None, next |-> None]
    ELSE ScanStep(ScanDispatches(ds, n - 1, t), ds[n], t)

get_dispatch_status(raw, t) ==
    LET dispatches == get_dispatches(raw)
        found == ScanDispatches(dispatches, Len(dispatches), t)
    IN  [is_dispatching |-> found.current # None,
         current_dispatch |-> found.current,
         next_dispatch |-> found.next]

-----------------------------------------------------------------------------
(* Inputs of the dispatch reconciler *)

HM(h, m) == MkDateTime(0, h, m, 0, 0)

DispatchStartStrings ==
    { Some(IsoString(HM(10, 0), "Z")), Some(IsoString(HM(10, 30), "+00:00")),
      Some(IsoString(HM(14, 0), "Z")), Some(IsoString(HM(11, 0), "+01:00")),
      Some(Unparseable), None }

DispatchEndStrings ==
    { Some(IsoString(HM(11, 0), "Z")), Some(IsoString(HM(15, 0), "Z")),
      Some(IsoString(HM(12, 0), "+01:00")), Some(Unparseable), None }

DispatchRecords == [start : DispatchStartStrings, end : DispatchEndStrings]

\* the instants (UTC) at which the host's clock is read
DispatchClockInstants ==
    { HM(9, 0), HM(10, 0), HM(10, 30), HM(11, 0) - 1, HM(11, 0), HM(11, 0) + 1,
      HM(12, 30), HM(14, 0), HM(15, 0), HM(15, 30) }

HostOffsets == {0, Minutes(60)}

InitDispatch ==
    /\ utcOffset \in HostOffsets
    /\ RestIdle
    /\ ClientIdle
    /\ AppIdle
    /\ now \in { i + utcOffset : i \in DispatchClockInstants }
    /\ tariff = None
    /\ RateIdle
    /\ plannedDispatches \in SeqUpTo(DispatchRecords, MaxRecords)
    /\ dispatchesReturn = None
    /\ dispatch = None
    /\ SessionsIdle
    /\ UsageIdle

\* one call of get_dispatch_status at the instant now
GetDispatchStatus ==
    /\ dispatch = None
    /\ dispatchesReturn' = Some(get_dispatches(plannedDispatches))
    /\ dispatch' = Some(get_dispatch_status(plannedDispatches, now))
    /\ UNCHANGED <<envVars, restVars, clientVars, appVars, rate, plannedDispatches, sessionVars, usageVars>>

NextDispatch == GetDispatchStatus

SpecDispatch == InitDispatch /\ [][NextDispatch]_vars

-----------------------------------------------------------------------------
(* Claims about the dispatch reconciler *)

SetMin(S) == CHOOSE x \in S : \A y \in S : x <= y
SetMax(S) == CHOOSE x \in S : \A y \in S : y <= x

\* the instant of the host's clock reading, as UTC ticks
NowInstant == now - utcOffset

\* the start-sorted list the reconciler scans
SortedDispatches == get_dispatches(plannedDispatches)

\* the positions of the intervals with start <= now <= end, as instants
Containing ==
    { i \in 1..Len(SortedDispatches) :
        /\ Instant(SortedDispatches[i].start) <= NowInstant
        /\ NowInstant <= Instant(SortedDispatches[i].end) }

\* the positions of the intervals that start strictly after now
StartingLater ==
    { i \in 1..Len(SortedDispatches) : NowInstant < Instant(SortedDispatches[i].start) }

Interval(h1, m1, h2, m2) ==
    [start |-> Aware(HM(h1, m1), 0), end |-> Aware(HM(h2, m2), 0)]

\* the API's records of [{10:00,11:00},{14:00,15:00}]
ScenarioDispatches ==
    << [start |-> Some(IsoString(HM(10, 0), "Z")), end |-> Some(IsoString(HM(11, 0), "Z"))],
       [start |-> Some(IsoString(HM(14, 0), "Z")), end |-> Some(IsoString(HM(15, 0), "Z"))] >>

\* C3: the current dispatch is an interval with start <= now <= end, both ends
\* included, and is_dispatching holds exactly when some interval contains now so;
\* with [{10:00,11:00},{14:00,15:00}] at 11:00 exactly, current is {10:00,11:00}.
C3_ClosedInterval ==
    dispatch # None =>
        LET st == Val(dispatch)
        IN  /\ st.is_dispatching <=> Containing # {}
            /\ st.is_dispatching <=> st.current_dispatch # None
            /\ st.current_dispatch # None =>
                   \E i \in Containing : st.current_dispatch = Some(SortedDispatches[i])
            /\ (plannedDispatches = ScenarioDispatches /\ NowInstant = HM(11, 0)) =>
                   /\ st.is_dispatching
                   /\ st.current_dispatch = Some(Interval(10, 0, 11, 0))

C3_Witness ==
    /\ dispatch # None
    /\ plannedDispatches = ScenarioDispatches
    /\ NowInstant = HM(11, 0)
    /\ Val(dispatch).is_dispatching

\* C4 as claimed: of several intervals containing now, the first in scan order
\* is reported as current.
C4_FirstMatchIsCurrent ==
    (dispatch # None /\ Cardinality(Containing) >= 2) =>
        Val(dispatch).current_dispatch = Some(SortedDispatches[SetMin(Containing)])

\* C4 as amended: of several intervals containing now, the last in scan order
\* is reported as current.
C4_LastMatchIsCurrent ==
    (dispatch # None /\ Cardinality(Containing) >= 2) =>
        Val(dispatch).current_dispatch = Some(SortedDispatches[SetMax(Containing)])

C4_Witness ==
    /\ dispatch # None
    /\ Cardinality(Containing) >= 2
    /\ SortedDispatches[SetMin(Containing)] # SortedDispatches[SetMax(Containing)]
    /\ Val(dispatch).current_dispatch = Some(SortedDispatches[SetMax(Containing)])

\* C5 as claimed: for [{10:00,11:00},{14:00,15:00}], at 10:30 current is
\* {10:00,11:00} and next is none; at 09:00 current is none and next is {10:00,11:00}.
C5_ScenarioNextNone ==
    (dispatch # None /\ plannedDispatches = ScenarioDispatches) =>
        /\ NowInstant = HM(10, 30) =>
               /\ Val(dispatch).current_dispatch = Some(Interval(10, 0, 11, 0))
               /\ Val(dispatch).next_dispatch = None
        /\ NowInstant = HM(9, 0) =>
               /\ Val(dispatch).current_dispatch = None
               /\ Val(dispatch).next_dispatch = Some(Interval(10, 0, 11, 0))

\* C5 as amended: for [{10:00,11:00},{14:00,15:00}], at 10:30 current is
\* {10:00,11:00} and next is {14:00,15:00}; at 09:00 current is none and next is
\* {10:00,11:00}.
C5_Scenario ==
    (dispatch # None /\ plannedDispatches = ScenarioDispatches) =>
        /\ NowInstant = HM(10, 30) =>
               /\ Val(dispatch).current_dispatch = Some(Interval(10, 0, 11, 0))
               /\ Val(dispatch).next_dispatch = Some(Interval(14, 0, 15, 0))
        /\ NowInstant = HM(9, 0) =>
               /\ Val(dispatch).current_dispatch = None
               /\ Val(dispatch).next_dispatch = Some(Interval(10, 0, 11, 0))

C5_Witness ==
    /\ dispatch # None
    /\ plannedDispatches = ScenarioDispatches
    /\ NowInstant = HM(10, 30)
    /\ Val(dispatch).current_dispatch = Some(Interval(10, 0, 11, 0))
    /\ Val(dispatch).next_dispatch = Some(Interval(14, 0, 15, 0))

\* C6: the next dispatch is the first interval of the start-sorted list whose
\* start is strictly after now, and is none exactly when no interval starts later.
C6_NextIsFirstLater ==
    dispatch # None =>
        /\ Val(dispatch).next_dispatch = None <=> StartingLater = {}
        /\ StartingLater # {} =>
               Val(dispatch).next_dispatch = Some(SortedDispatches[SetMin(StartingLater)])

C6_Witness ==
    /\ dispatch # None
    /\ Cardinality(StartingLater) >= 2
    /\ SortedDispatches[SetMin(StartingLater)] # SortedDispatches[SetMax(StartingLater)]
    /\ Val(dispatch).next_dispatch = Some(SortedDispatches[SetMin(StartingLater)])

-----------------------------------------------------------------------------
(* SavingSessionFilter: OctopusClient.get_saving_sessions *)

\* the try block of get_saving_sessions raises ValueError or KeyError on this event
SessionRaises(e) ==
    \/ KeyMissing(e.startAt) \/ FromIsoRaises(ReplaceZ(Val(e.startAt)))
    \/ KeyMissing(e.endAt) \/ FromIsoRaises(ReplaceZ(Val(e.endAt)))

ParseSession(e) ==
    [start |-> fromisoformat(ReplaceZ(Val(e.startAt))),
     end |-> fromisoformat(ReplaceZ(Val(e.endAt)))]

\* mutant: a session ending exactly now is kept (">=" for ">")
SessionNotEndedInclusive(end, t) == StripTz(end) >= t

\* end.replace(tzinfo=None) > now
SessionNotEnded(end, t) == StripTz(end) > t

\* the loop over the events: the sessions appended, in the events' order
RECURSIVE UpcomingSessions(_, _)
UpcomingSessions(events, t) ==
    IF events = <<>> THEN <<>>
    ELSE LET front == UpcomingSessions(SubSeq(events, 1, Len(events) - 1), t)
             e == events[Len(events)]
         IN  IF SessionRaises(e) THEN front
             ELSE IF SessionNotEnded(ParseSession(e).end, t)
                  THEN Append(front, ParseSession(e))
                  ELSE front

get_saving_sessions(events, t) == SortedByStart(UpcomingSessions(events, t))

-----------------------------------------------------------------------------
(* Inputs of the saving-session filter *)

SessionStartStrings ==
    { Some(IsoString(HM(10, 0), "Z")), Some(IsoString(HM(13, 0), "Z")),
      Some(IsoString(HM(11, 30), "+01:00")), Some(Unparseable), None }

SessionEndStrings ==
    { Some(IsoString(HM(11, 0), "Z")), Some(IsoString(HM(12, 0), "Z")),
      Some(IsoString(HM(14, 0), "Z")), Some(IsoString(HM(13, 0), "+01:00")),
      Some(Unparseable), None }

SessionEvents == [startAt : SessionStartStrings, endAt : SessionEndStrings]

\* the host's clock, on the hour and one tick around 12:00
SessionClockReadings ==
    { HM(h, 0) : h \in 11..14 } \cup { HM(12, 0) - 1, HM(12, 0) + 1 }

InitSessions ==
    /\ now \in SessionClockReadings
    /\ utcOffset \in HostOffsets
    /\ RestIdle
    /\ ClientIdle
    /\ AppIdle
    /\ tariff = None
    /\ RateIdle
    /\ DispatchIdle
    /\ savingSessionEvents \in SeqUpTo(SessionEvents, MaxRecords)
    /\ sessions = None
    /\ UsageIdle

\* one call of get_saving_sessions at the instant now
GetSavingSessions ==
    /\ sessions = None
    /\ sessions' = Some(get_saving_sessions(savingSessionEvents, now))
    /\ UNCHANGED <<envVars, restVars, clientVars, appVars, rate, dispatchVars, savingSessionEvents, usageVars>>

NextSessions == GetSavingSessions

SpecSessions == InitSessions /\ [][NextSessions]_vars

-----------------------------------------------------------------------------
(* Claims about the saving-session filter *)

\* how many times x occurs in the sequence s
Occurrences(s, x) == Cardinality({ i \in 1..Len(s) : s[i] = x })

\* the well-formed events of the response, parsed, in the response's order
RECURSIVE WellFormedSessions(_)
WellFormedSessions(events) ==
    IF events = <<>> THEN <<>>
    ELSE LET front == WellFormedSessions(SubSeq(events, 1, Len(events) - 1))
             e == events[Len(events)]
         IN  IF e.startAt = None \/ e.endAt = None THEN front
             ELSE IF Val(e.startAt) = Unparseable \/ Val(e.endAt) = Unparseable THEN front
             ELSE Append(front,
                         [start |-> Aware(Val(e.startAt).wall, ZoneOffset(Val(e.startAt).zone)),
                          end |-> Aware(Val(e.endAt).wall, ZoneOffset(Val(e.endAt).zone))])

\* the events [{T-2h, T-1h}, {T+1h, T+2h}] for T = 12:00
ScenarioSessions ==
    << [startAt |-> Some(IsoString(HM(10, 0), "Z")), endAt |-> Some(IsoString(HM(11, 0), "Z"))],
       [startAt |-> Some(IsoString(HM(13, 0), "Z")), endAt |-> Some(IsoString(HM(14, 0), "Z"))] >>

-----------------------------------------------------------------------------
(* dicts, and the "%Y-%m-%d" keys of the daily buckets *)

\* d.get(k, default)
DictGet(d, k, default) == IF k \in DOMAIN d THEN d[k] ELSE default

\* d[k] = v
DictSet(d, k, v) == [x \in DOMAIN d \cup {k} |-> IF x = k THEN v ELSE d[x]]

\* mutant: "=" for "+="
PlusAssignOverwrites(d, k, v) == DictSet(d, k, v)

\* d[k] += v on a defaultdict(float)
PlusAssign(d, k, v) == DictSet(d, k, DictGet(d, k, 0) + v)

\* sum(d.get(k, 0) for k in range(lo, hi))
RECURSIVE SumRange(_, _, _)
SumRange(d, lo, hi) ==
    IF lo >= hi THEN 0 ELSE DictGet(d, hi - 1, 0) + SumRange(d, lo, hi - 1)

\* Day 0 of the model is 2024-09-28, so that days 2 and 3 are 2024-09-30 and
\* 2024-10-01; the calendar below is right from 2024-09-01 to 2024-10-31.
CalendarMonth(day) == IF day <= 2 THEN 9 ELSE 10
CalendarDay(day) == IF day <= 2 THEN 28 + day ELSE day - 2

Hyphen == <<45>>
TwoDigits(n) == <<Digit(n \div 10), Digit(n % 10)>>

\* t.strftime("%Y-%m-%d")
strftime_Ymd(t) ==
    <<Digit(2), Digit(0), Digit(2), Digit(4)>> \o Hyphen \o
    TwoDigits(CalendarMonth(DateOf(t))) \o Hyphen \o TwoDigits(CalendarDay(DateOf(t)))

\* sorted(keys, reverse=True) on str keys
RECURSIVE SortedReverse(_)
SortedReverse(keys) ==
    IF keys = {} THEN <<>>
    ELSE LET top == CHOOSE k \in keys : \A other \in keys : ~StrLess(k, other)
         IN  <<top>> \o SortedReverse(keys \ {top})

\* xs[-n:]
\* a series that is never cut
Untrimmed(xs, n) == xs

Trailing(xs, n) == IF Len(xs) > n THEN SubSeq(xs, Len(xs) - n + 1, Len(xs)) ELSE xs

-----------------------------------------------------------------------------
(* ConsumptionAggregator: MenuBarServer.fetch_data, MenuBarServer._calculate_cost *)

(* Units.  kwh is in tenths of a kWh, a unit rate and the standing charge in  *)
(* pence, a cost in 1/10000 of a pound: one tenth of a kWh at one penny costs *)
(* 10 units, a standing charge of one penny 100 units, and the flat estimate  *)
(* of 0.245 pounds per kWh is 245 units per tenth of a kWh.                   *)

FlatEstimate == 245

\* slot = hour * 2 + (1 if minute >= 30 else 0)
SlotOf(t) == HourOf(t) * 2 + (IF MinuteOf(t) >= 30 THEN 1 ELSE 0)

\* the body of "for c in consumption" in fetch_data
ServerAggregateStep(acc, c) ==
    LET day == strftime_Ymd(c.start.wall)
        hour == HourOf(c.start.wall)
        slot == SlotOf(c.start.wall)
    IN  [daily |-> PlusAssign(acc.daily, day, c.kwh),
         hourly_by_day |->
             DictSet(acc.hourly_by_day, day,
                     PlusAssign(DictGet(acc.hourly_by_day, day, EmptyDict), hour, c.kwh)),
         half_hourly_by_day |->
             DictSet(acc.half_hourly_by_day, day,
                     DictSet(DictGet(acc.half_hourly_by_day, day, EmptyDict), slot, c.kwh))]

\* The loop over the readings lo..hi in their order, from the buckets acc.  The
\* range is split in two and the first half's buckets are evaluated (left = left
\* is always true) before the second half starts from them: that keeps TLC's
\* evaluation stack shallow on a day of 48 readings.
RECURSIVE ServerAggregateRange(_, _, _, _)
ServerAggregateRange(acc, samples, lo, hi) ==
    IF lo > hi THEN acc
    ELSE IF lo = hi THEN ServerAggregateStep(acc, samples[lo])
    ELSE LET mid == (lo + hi) \div 2
             left == ServerAggregateRange(acc, samples, lo, mid)
         IN  IF left = left THEN ServerAggregateRange(left, samples, mid + 1, hi) ELSE left

ServerAggregate(samples) ==
    ServerAggregateRange(
        [daily |-> EmptyDict, hourly_by_day |-> EmptyDict, half_hourly_by_day |-> EmptyDict],
        samples, 1, Len(samples))

\* mutant: hour 23 left out of the off-peak hours
OffPeakKwhWithout23(hourly) == SumRange(hourly, 0, 6)

\* sum(hourly.get(h, 0) for h in range(6)) + hourly.get(23, 0)
OffPeakKwh(hourly) == SumRange(hourly, 0, 6) + DictGet(hourly, 23, 0)

\* the cost of a day with a tariff
TariffCost(total_kwh, hourly, tf) ==
    LET off_peak_kwh == OffPeakKwh(hourly)
        peak_kwh == total_kwh - off_peak_kwh
        off_rate == PyOr(tf.off_peak_rate, DefaultOffPeakRate)
        peak_rate == PyOr(tf.peak_rate, DefaultPeakRate)
    IN  10 * (off_peak_kwh * off_rate + peak_kwh * peak_rate) + 100 * tf.standing_charge

_calculate_cost(total_kwh, hourly, tf) ==
    IF tf = None THEN total_kwh * FlatEstimate
    ELSE TariffCost(total_kwh, hourly, Val(tf))

\* [d.get(k, 0) for k in range(n)]
RangeValues(d, n) == [i \in 1..n |-> DictGet(d, i - 1, 0)]

\* round(x, 2) of a cost x: the nearest multiple of 100 units.  A decimal tie is
\* decided by the binary float that stands for x, which lies on either side of
\* the tie; tieUp says on which.
Round2(x, tieUp) ==
    LET q == x \div 100
        r == x % 100
    IN  100 * (IF r > 50 \/ (r = 50 /\ tieUp) THEN q + 1 ELSE q)

\* mutant: the projection taken from today's cost alone
MonthlyProjectionFromToday(yesterday_cost, today_cost, tieUp) ==
    IF today_cost > 0 THEN Round2(today_cost * 30, tieUp) ELSE 0

\* the monthly projection of fetch_data
MonthlyProjection(yesterday_cost, today_cost, tieUp) ==
    IF yesterday_cost > 0 THEN Round2(yesterday_cost * 30, tieUp)
    ELSE IF today_cost > 0 THEN Round2(today_cost * 30, tieUp)
    ELSE 0

\* the consumption block of fetch_data, from the readings to the result's keys
ServerUsage(b, tf, t, tieUp) ==
    LET sorted_days == SortedReverse(DOMAIN b.daily)
        today == strftime_Ymd(t)
        yesterday == strftime_Ymd(t - Days(1))
        display_today == IF Len(sorted_days) > 0 THEN sorted_days[1] ELSE today
        display_yesterday == IF Len(sorted_days) > 1 THEN sorted_days[2] ELSE yesterday
        has_today == display_today \in DOMAIN b.daily
        has_yesterday == display_yesterday \in DOMAIN b.daily
        hourly ==
            (IF display_yesterday \in DOMAIN b.hourly_by_day
             THEN RangeValues(b.hourly_by_day[display_yesterday], 24) ELSE <<>>) \o
            (IF display_today \in DOMAIN b.hourly_by_day
             THEN RangeValues(b.hourly_by_day[display_today], 24) ELSE <<>>)
        half_hourly ==
            (IF display_yesterday \in DOMAIN b.half_hourly_by_day
             THEN RangeValues(b.half_hourly_by_day[display_yesterday], 48) ELSE <<>>) \o
            (IF display_today \in DOMAIN b.half_hourly_by_day
             THEN RangeValues(b.half_hourly_by_day[display_today], 48) ELSE <<>>)
        today_cost ==
            IF has_today
            THEN _calculate_cost(b.daily[display_today], b.hourly_by_day[display_today], tf)
            ELSE 0
        yesterday_cost ==
            IF has_yesterday
            THEN _calculate_cost(b.daily[display_yesterday],
                                 b.hourly_by_day[display_yesterday], tf)
            ELSE 0
    IN  [data_date_latest |-> display_today,
         data_date_previous |-> display_yesterday,
         today_kwh |-> IF has_today THEN b.daily[display_today] ELSE 0,
         today_cost |-> today_cost,
         yesterday_kwh |-> IF has_yesterday THEN b.daily[display_yesterday] ELSE 0,
         yesterday_cost |-> yesterday_cost,
         hourly_usage |-> Trailing(hourly, 24),
         half_hourly_usage |-> Trailing(half_hourly, 48),
         monthly_projection |-> MonthlyProjection(yesterday_cost, today_cost, tieUp)]

-----------------------------------------------------------------------------
(* ConsumptionAggregator: OctopusMenuBar._refresh *)

\* the body of "for c in consumption" in _refresh
MenuBarAggregateStep(acc, c) ==
    LET day == strftime_Ymd(c.start.wall)
        hour == HourOf(c.start.wall)
    IN  [daily |-> PlusAssign(acc.daily, day, c.kwh),
         hourly_by_day |->
             DictSet(acc.hourly_by_day, day,
                     PlusAssign(DictGet(acc.hourly_by_day, day, EmptyDict), hour, c.kwh))]

\* the loop over the readings lo..hi in their order, split as ServerAggregateRange is
RECURSIVE MenuBarAggregateRange(_, _, _, _)
MenuBarAggregateRange(acc, samples, lo, hi) ==
    IF lo > hi THEN acc
    ELSE IF lo = hi THEN MenuBarAggregateStep(acc, samples[lo])
    ELSE LET mid == (lo + hi) \div 2
             left == MenuBarAggregateRange(acc, samples, lo, mid)
         IN  IF left = left THEN MenuBarAggregateRange(left, samples, mid + 1, hi) ELSE left

MenuBarAggregate(samples) ==
    MenuBarAggregateRange([daily |-> EmptyDict, hourly_by_day |-> EmptyDict],
                          samples, 1, Len(samples))

\* [d.get(h, 0) for h in range(lo, hi)]
HoursFrom(d, lo, hi) == [i \in 1..(hi - lo) |-> DictGet(d, lo + i - 1, 0)]

\* the consumption block of _refresh, from the readings to the fields it assigns
MenuBarUsage(b, tf, t) ==
    LET sorted_days == SortedReverse(DOMAIN b.daily)
        latest_day == IF Len(sorted_days) > 0 THEN sorted_days[1] ELSE <<>>
        latest_kwh == DictGet(b.daily, latest_day, 0)
        current_hour == HourOf(t)
        hourly_usage ==
            IF Len(sorted_days) >= 2
            THEN HoursFrom(b.hourly_by_day[sorted_days[2]], current_hour, 24) \o
                 HoursFrom(b.hourly_by_day[sorted_days[1]], 0, current_hour + 1)
            ELSE <<>>
        latest_cost ==
            IF tf # None /\ latest_day # <<>>
            THEN TariffCost(latest_kwh, b.hourly_by_day[latest_day], Val(tf))
            ELSE latest_kwh * FlatEstimate
    IN  [latest_kwh |-> latest_kwh, latest_cost |-> latest_cost, latest_day |-> latest_day,
         last_refresh |-> Some(t), hourly_usage |-> hourly_usage]

\* sum(xs)
RECURSIVE SumSeq(_)
SumSeq(xs) == IF xs = <<>> THEN 0 ELSE xs[1] + SumSeq(Tail(xs))

\* total_24h of _update_menu, shown as "kWh/24h"; None when the item is hidden
total_24h(m) ==
    IF Len(m.hourly_usage) >= 3 THEN Some(SumSeq(m.hourly_usage)) ELSE None

-----------------------------------------------------------------------------
(* Inputs of the aggregation *)

Reading(day, h, m, off, kwh) == [start |-> Aware(MkDateTime(day, h, m, 0, 0), off), kwh |-> kwh]

\* readings of 2024-09-30 and 2024-10-01: two in the slot of 10:00, one more in
\* the hour of 10, the off-peak hours 0, 5 and 23, and a repeated wall-clock
\* reading under another offset
Readings ==
    { Reading(d, h, m, 0, 3) :
        d \in 2..3, h \in {0, 5, 10, 23}, m \in {0, 30} } \cup
    { Reading(d, 10, 15, 0, 2) : d \in 2..3 } \cup
    { Reading(3, 10, 0, Minutes(60), 5) }

\* 48 half-hourly readings of 0.5 kWh for one day
FullDayReadings == [i \in 1..48 |-> Reading(3, (i - 1) \div 2, 30 * ((i - 1) % 2), 0, 5)]

\* the tariff {offPeakRate = 7, peakRate = 30, standingCharge = 50}
ScenarioTariff == [off_peak_rate |-> Some(7), peak_rate |-> Some(30), standing_charge |-> 50]

\* no tariff, the scenario's tariff, a tariff without an off-peak rate, and a
\* tariff whose off-peak unit rate was parsed as 0 (value_inc_vat of 0 or absent)
UsageTariffs ==
    { None, Some(ScenarioTariff),
      Some([off_peak_rate |-> None, peak_rate |-> Some(35), standing_charge |-> 50]),
      Some([off_peak_rate |-> Some(0), peak_rate |-> Some(30), standing_charge |-> 50]) }

UsageClockReadings == { MkDateTime(3, 14, 0, 0, 0), MkDateTime(4, 0, 10, 0, 0) }

InitUsage ==
    /\ now \in UsageClockReadings
    /\ utcOffset = 0
    /\ RestIdle
    /\ ClientIdle
    /\ AppIdle
    /\ tariff \in UsageTariffs
    /\ RateIdle
    /\ DispatchIdle
    /\ SessionsIdle
    /\ consumption \in SeqUpTo(Readings, MaxSamples) \cup {FullDayReadings}
    /\ buckets = None /\ result = None
    /\ mbBuckets = None /\ menubar = MenuBarInit

\* the consumption block of one fetch_data of the server (mpan and meter serial
\* set), the tariff being what get_tariff returned earlier in the same call
FetchData ==
    /\ result = None
    /\ \E tieUp \in BOOLEAN :
           LET b == ServerAggregate(consumption)
           IN  /\ buckets' = Some(b)
               /\ result' = Some(ServerUsage(b, tariff, now, tieUp))
    /\ UNCHANGED <<envVars, restVars, clientVars, appVars, rate, dispatchVars, sessionVars, consumption, menubarVars>>

\* the consumption block of one _refresh of the menu bar (mpan and meter serial set)
Refresh ==
    /\ menubar.last_refresh = None
    /\ LET b == MenuBarAggregate(consumption)
       IN  /\ mbBuckets' = Some(b)
           /\ menubar' = MenuBarUsage(b, tariff, now)
    /\ UNCHANGED <<envVars, restVars, clientVars, appVars, rate, dispatchVars, sessionVars, consumption, serverVars>>

NextUsage == FetchData \/ Refresh

SpecUsage == InitUsage /\ [][NextUsage]_vars

-----------------------------------------------------------------------------
(* Claims about the aggregation *)

\* the calendar dates on which some reading starts
ReadingDays == { strftime_Ymd(consumption[i].start.wall) : i \in 1..Len(consumption) }

\* the half hour of the day in which a wall-clock reading falls, 0..47
HalfHourOfDay(t) == TimeOfDay(t) \div Minutes(30)

\* the kwh of the readings lo..hi that start on the day, in the half hour slot
RECURSIVE KwhOfSlot(_, _, _, _)
KwhOfSlot(lo, hi, day, slot) ==
    IF lo > hi THEN 0
    ELSE IF lo = hi
         THEN IF /\ strftime_Ymd(consumption[lo].start.wall) = day
                 /\ HalfHourOfDay(consumption[lo].start.wall) = slot
              THEN consumption[lo].kwh ELSE 0
         ELSE KwhOfSlot(lo, (lo + hi) \div 2, day, slot)
              + KwhOfSlot((lo + hi) \div 2 + 1, hi, day, slot)

\* the kwh of the readings lo..hi that start on the day
RECURSIVE KwhOfDay(_, _, _)
KwhOfDay(lo, hi, day) ==
    IF lo > hi THEN 0
    ELSE IF lo = hi
         THEN IF strftime_Ymd(consumption[lo].start.wall) = day
              THEN consumption[lo].kwh ELSE 0
         ELSE KwhOfDay(lo, (lo + hi) \div 2, day) + KwhOfDay((lo + hi) \div 2 + 1, hi, day)

\* C8: each half-hour slot of a day holds the sum of the kwh of all readings
\* starting in that slot, so the 48 slot values of a day sum to the day's total.
C8_HalfHourlySlotsSum ==
    buckets # None =>
        \A day \in ReadingDays :
            LET slots == DictGet(Val(buckets).half_hourly_by_day, day, EmptyDict)
            IN  /\ \A slot \in 0..47 :
                       DictGet(slots, slot, 0) = KwhOfSlot(1, Len(consumption), day, slot)
                /\ SumRange(slots, 0, 48) = DictGet(Val(buckets).daily, day, 0)

\* the hour buckets of a day sum to the day's total, which is the kwh of the
\* day's readings
HourlySumsToDaily(b) ==
    \A day \in ReadingDays :
        /\ day \in DOMAIN b.daily /\ day \in DOMAIN b.hourly_by_day
        /\ SumRange(b.hourly_by_day[day], 0, 24) = b.daily[day]
        /\ b.daily[day] = KwhOfDay(1, Len(consumption), day)

\* C9: for every day with a reading, the sum of the day's hour buckets 0..23 is
\* the day's total kWh, in the server's aggregation and in the menu bar's.
C9_HourlySum ==
    /\ buckets # None => HourlySumsToDaily(Val(buckets))
    /\ mbBuckets # None => HourlySumsToDaily(Val(mbBuckets))

C9_Witness ==
    /\ buckets # None /\ mbBuckets # None
    /\ \E day \in ReadingDays :
           /\ Cardinality(DOMAIN Val(buckets).hourly_by_day[day]) >= 2
           /\ Cardinality(DOMAIN Val(mbBuckets).hourly_by_day[day]) >= 2
           /\ Val(mbBuckets).daily[day] = 6

\* the day of FullDayReadings
FullDay == strftime_Ymd(MkDateTime(3, 0, 0, 0, 0))

\* the kWh _calculate_cost attributes to off-peak and to peak on the full day
FullDayOffPeak == OffPeakKwh(Val(buckets).hourly_by_day[FullDay])
FullDayPeak == Val(buckets).daily[FullDay] - FullDayOffPeak

FullDayScenario ==
    /\ consumption = FullDayReadings
    /\ tariff = Some(ScenarioTariff)
    /\ result # None

\* C10 as claimed: 48 readings of 0.5 kWh under {7, 30, 50} give 3.5 kWh
\* off-peak, 8.5 kWh peak and a cost of 3.295 pounds (35, 85 and 32950 units).
C10_CostAsClaimed ==
    FullDayScenario =>
        /\ FullDayOffPeak = 35
        /\ FullDayPeak = 85
        /\ Val(result).today_cost = 32950

\* C10 as amended: 48 readings of 0.5 kWh under {7, 30, 50} give 7.0 kWh
\* off-peak (hours 0-5 and 23, two readings each), 17.0 kWh peak and a cost of
\* (7.0*7 + 17.0*30)/100 + 50/100 = 6.09 pounds (70, 170 and 60900 units).
C10_Cost ==
    FullDayScenario =>
        /\ FullDayOffPeak = 70
        /\ FullDayPeak = 170
        /\ Val(result).today_cost = 60900

C10_Witness ==
    /\ FullDayScenario
    /\ Val(result).today_kwh = 240
    /\ Val(result).today_cost = 60900

\* sum(d.get(k, 0) for k in keys)
RECURSIVE SumOver(_, _)
SumOver(d, keys) ==
    IF keys = {} THEN 0
    ELSE LET k == CHOOSE x \in keys : TRUE
         IN  DictGet(d, k, 0) + SumOver(d, keys \ {k})

\* the hours the cost counts as off-peak
OffPeakHours == {0, 1, 2, 3, 4, 5, 23}

\* the unit rate the tariff holds for a band, the default when it holds none
RateOrDefault(r, default) == IF r = None THEN default ELSE Val(r)

\* the daily cost as the formula states it, in 1/10000 of a pound
FormulaCost(total_kwh, hourly, tf) ==
    IF tf = None THEN total_kwh * 245
    ELSE LET offPeakKwh == SumOver(hourly, OffPeakHours)
             peakKwh == total_kwh - offPeakKwh
         IN  10 * (offPeakKwh * RateOrDefault(Val(tf).off_peak_rate, 7)
                   + peakKwh * RateOrDefault(Val(tf).peak_rate, 30))
             + 100 * Val(tf).standing_charge

\* C11: the cost of a day bucket is (offPeakKwh*offPeakRate + peakKwh*peakRate)/100
\* + standingCharge/100 with the tariff's rates when a tariff is available, and
\* totalKwh * 0.245 without one, in the server's today_cost and yesterday_cost and
\* in the menu bar's latest_cost.
C11_DailyCost ==
    /\ (result # None /\ ReadingDays # {}) =>
           LET b == Val(buckets)
               today == Val(result).data_date_latest
               yesterday == Val(result).data_date_previous
           IN  /\ Val(result).today_cost =
                      FormulaCost(b.daily[today], b.hourly_by_day[today], tariff)
               /\ yesterday \in DOMAIN b.daily =>
                      Val(result).yesterday_cost =
                          FormulaCost(b.daily[yesterday], b.hourly_by_day[yesterday], tariff)
    /\ (mbBuckets # None /\ ReadingDays # {}) =>
           LET b == Val(mbBuckets)
               day == menubar.latest_day
           IN  menubar.latest_cost = FormulaCost(b.daily[day], b.hourly_by_day[day], tariff)

\* the menu bar's cost of its latest day is the server's cost of the same day
C11_ServerAndMenuBarAgree ==
    (result # None /\ mbBuckets # None /\ ReadingDays # {}) =>
        menubar.latest_cost = Val(result).today_cost

\* the latest of a set of date keys
LatestKey(keys) == CHOOSE k \in keys : \A other \in keys : other = k \/ StrLess(other, k)

\* C12: "today" is the most recent date key of the buckets and "yesterday" the
\* second most recent; the calendar today (yesterday) stands in only when the
\* buckets hold no date for that slot, and then the slot's kWh and cost stay 0.
C12_DaySelection ==
    result # None =>
        LET r == Val(result)
            b == Val(buckets)
        IN  /\ ReadingDays # {} =>
                   /\ r.data_date_latest = LatestKey(ReadingDays)
                   /\ r.today_kwh = b.daily[LatestKey(ReadingDays)]
            /\ Cardinality(ReadingDays) >= 2 =>
                   LET second == LatestKey(ReadingDays \ {LatestKey(ReadingDays)})
                   IN  /\ r.data_date_previous = second
                       /\ r.yesterday_kwh = b.daily[second]
            /\ ReadingDays = {} =>
                   /\ r.data_date_latest = strftime_Ymd(now)
                   /\ r.today_kwh = 0 /\ r.today_cost = 0
            /\ Cardinality(ReadingDays) < 2 =>
                   /\ r.data_date_previous = strftime_Ymd(now - Days(1))
                   /\ r.yesterday_kwh = 0 /\ r.yesterday_cost = 0

\* the hour buckets lo..hi of a day, in order
RECURSIVE HourBuckets(_, _, _)
HourBuckets(hourly, lo, hi) ==
    IF lo > hi THEN <<>> ELSE <<DictGet(hourly, lo, 0)>> \o HourBuckets(hourly, lo + 1, hi)

\* C13: after a menu-bar refresh with at least two days of data, hourly_usage is
\* the trailing 24 entries of yesterday's hour buckets from the current hour
\* onward followed by today's hour buckets 0..current hour, so it has exactly 24
\* entries and the "kWh/24h" total sums exactly 24 hour buckets.
C13_HourlyUsage24 ==
    (mbBuckets # None /\ Cardinality(ReadingDays) >= 2) =>
        LET b == Val(mbBuckets)
            today == LatestKey(ReadingDays)
            yesterday == LatestKey(ReadingDays \ {today})
            series == HourBuckets(b.hourly_by_day[yesterday], HourOf(now), 23) \o
                      HourBuckets(b.hourly_by_day[today], 0, HourOf(now))
        IN  /\ menubar.hourly_usage = Trailing(series, 24)
            /\ Len(menubar.hourly_usage) = 24
            /\ total_24h(menubar) = Some(SumSeq(Trailing(series, 24)))

-----------------------------------------------------------------------------
(* MenuBarServer.fetch_data as a whole *)

\* dt.isoformat() of an aware datetime
isoformat(dt) == IsoString(dt.wall, IF dt.off = Minutes(60) THEN "+01:00" ELSE "+00:00")

\* a dict updated with the keys of another
Updated(d, more) ==
    [k \in DOMAIN d \cup DOMAIN more |-> IF k \in DOMAIN more THEN more[k] ELSE d[k]]

\* the dict fetch_data starts from (the keys the model follows); "error" is absent
InitialResult ==
    [rate |-> None, is_off_peak |-> FALSE, rate_ends_in_seconds |-> 0,
     dispatch_status |-> "none", dispatch_end |-> None,
     next_dispatch_start |-> None, next_dispatch_end |-> None,
     yesterday_kwh |-> 0, yesterday_cost |-> 0, today_kwh |-> 0, today_cost |-> 0,
     hourly_usage |-> <<>>, standing_charge |-> 0,
     has_saving_session |-> FALSE, saving_session_start |-> None,
     saving_session_end |-> None, monthly_projection |-> 0,
     peak_rate |-> None, off_peak_rate |-> None]

\* The calls fetch_data awaits inside its try block, in their order; each may
\* raise (an HTTP error, an errors field in the response, a timeout).
FetchSteps ==
    << "get_account", "get_tariff", "get_dispatch_status", "get_smart_devices",
       "get_completed_dispatches", "get_live_power", "get_saving_sessions",
       "get_consumption" >>

\* mutant: the band of the clock reported even without a tariff
TariffKeysWithoutTariff(tf, t) ==
    IF tf = None THEN [is_off_peak |-> IsOffPeak(strftime_HM(t))]
    ELSE [standing_charge |-> Val(tf).standing_charge,
          rate |-> Some(get_current_rate(Val(tf), t).rate),
          is_off_peak |-> get_current_rate(Val(tf), t).is_off_peak]

\* the keys set after get_tariff returned
TariffKeys(tf, t) ==
    IF tf = None THEN <<>>
    ELSE LET rate_info == get_current_rate(Val(tf), t)
             time_left == rate_info.period_end - t
             seconds == time_left \div TicksPerSecond
         IN  [standing_charge |-> Val(tf).standing_charge,
              peak_rate |-> Val(tf).peak_rate,
              off_peak_rate |-> Val(tf).off_peak_rate,
              rate |-> Some(rate_info.rate),
              is_off_peak |-> rate_info.is_off_peak,
              rate_ends_in_seconds |-> IF seconds > 0 THEN seconds ELSE 0]

\* the keys set after get_dispatch_status returned
DispatchKeys(raw, t) ==
    LET status == get_dispatch_status(raw, t)
    IN  IF status.is_dispatching
        THEN [dispatch_status |-> "charging",
              dispatch_end |-> Some(isoformat(Val(status.current_dispatch).end))]
        ELSE IF status.next_dispatch # None
             THEN [dispatch_status |-> "scheduled",
                   next_dispatch_start |-> Some(isoformat(Val(status.next_dispatch).start)),
                   next_dispatch_end |-> Some(isoformat(Val(status.next_dispatch).end))]
             ELSE <<>>

\* the keys set after get_saving_sessions returned
SessionKeys(events, t) ==
    LET upcoming == get_saving_sessions(events, t)
    IN  IF upcoming = <<>> THEN <<>>
        ELSE [has_saving_session |-> TRUE,
              saving_session_start |-> Some(isoformat(upcoming[1].start)),
              saving_session_end |-> Some(isoformat(upcoming[1].end))]

\* The result after the first n calls returned.  The calls that set no key the
\* model follows leave it as it is.
RECURSIVE ResultAfter(_, _, _, _, _, _, _)
ResultAfter(n, tf, raw, events, samples, t, tieUp) ==
    IF n = 0 THEN InitialResult
    ELSE LET before == ResultAfter(n - 1, tf, raw, events, samples, t, tieUp)
         IN  IF FetchSteps[n] = "get_tariff" THEN Updated(before, TariffKeys(tf, t))
             ELSE IF FetchSteps[n] = "get_dispatch_status"
                  THEN Updated(before, DispatchKeys(raw, t))
             ELSE IF FetchSteps[n] = "get_saving_sessions"
                  THEN Updated(before, SessionKeys(events, t))
             ELSE IF FetchSteps[n] = "get_consumption"
                  THEN Updated(before, ServerUsage(ServerAggregate(samples), tf, t, tieUp))
             ELSE before

\* fetch_data with mpan and meter serial set: every call returns (failed = None),
\* or the call failed raises and "except Exception" records it under "error"
fetch_data(tf, raw, events, samples, t, tieUp, failed) ==
    IF failed = None
    THEN ResultAfter(Len(FetchSteps), tf, raw, events, samples, t, tieUp)
    ELSE Updated(ResultAfter(Val(failed) - 1, tf, raw, events, samples, t, tieUp),
                 [error |-> FetchSteps[Val(failed)]])

-----------------------------------------------------------------------------
(* Inputs of fetch_data *)

FetchDay(h, m) == MkDateTime(3, h, m, 0, 0)

\* no dispatch; one running at 14:00 of 2024-10-01; one starting later that day
FetchDispatches ==
    { <<>>,
      << [start |-> Some(IsoString(FetchDay(13, 0), "Z")),
          end |-> Some(IsoString(FetchDay(15, 0), "Z"))] >>,
      << [start |-> Some(IsoString(FetchDay(16, 0), "Z")),
          end |-> Some(IsoString(FetchDay(17, 0), "Z"))] >> }

\* no saving session; one later on 2024-10-01
FetchSessions ==
    { <<>>,
      << [startAt |-> Some(IsoString(FetchDay(18, 0), "Z")),
          endAt |-> Some(IsoString(FetchDay(19, 0), "Z"))] >> }

FetchReadings == { Reading(2, 0, 0, 0, 3), Reading(2, 10, 0, 0, 2), Reading(3, 10, 30, 0, 5) }

FetchTariffs == { None, Some(ScenarioTariff) }

FetchClockReadings == { FetchDay(14, 0), FetchDay(23, 45) }

InitFetch ==
    /\ now \in FetchClockReadings
    /\ utcOffset = 0
    /\ RestIdle
    /\ ClientIdle
    /\ AppIdle
    /\ tariff \in FetchTariffs
    /\ RateIdle
    /\ plannedDispatches \in FetchDispatches
    /\ dispatchesReturn = None
    /\ dispatch = None
    /\ savingSessionEvents \in FetchSessions
    /\ sessions = None
    /\ consumption \in SeqUpTo(FetchReadings, MaxSamples)
    /\ buckets = None /\ result = None
    /\ mbBuckets = None /\ menubar = MenuBarInit

\* one call of fetch_data in which every request is answered
FetchSucceeds ==
    /\ result = None
    /\ \E tieUp \in BOOLEAN :
           result' = Some(fetch_data(tariff, plannedDispatches, savingSessionEvents,
                                     consumption, now, tieUp, None))
    /\ buckets' = Some(ServerAggregate(consumption))
    /\ UNCHANGED <<envVars, restVars, clientVars, appVars, rate, dispatchVars, sessionVars, consumption, menubarVars>>

\* one call of fetch_data in which one of the requests raises
FetchFails ==
    /\ result = None
    /\ \E tieUp \in BOOLEAN, failed \in 1..Len(FetchSteps) :
           result' = Some(fetch_data(tariff, plannedDispatches, savingSessionEvents,
                                     consumption, now, tieUp, Some(failed)))
    /\ UNCHANGED <<envVars, restVars, clientVars, appVars, rate, dispatchVars, sessionVars, consumption, buckets, menubarVars>>

NextFetch == FetchSucceeds \/ FetchFails

SpecFetch == InitFetch /\ [][NextFetch]_vars

-----------------------------------------------------------------------------
(* Claims about fetch_data *)

\* the remote API yields no tariff, no dispatches, no saving sessions, no consumption
EmptyInput ==
    /\ tariff = None
    /\ plannedDispatches = <<>>
    /\ savingSessionEvents = <<>>
    /\ consumption = <<>>

\* C14: with no tariff, no dispatches, no saving sessions and no consumption,
\* fetch_data returns a snapshot, with no error recorded when every request was
\* answered, in which is_off_peak is false, dispatch_status is "none" and
\* hourly_usage is empty.
C14_EmptyInput ==
    (EmptyInput /\ result # None) =>
        /\ Val(result).is_off_peak = FALSE
        /\ Val(result).dispatch_status = "none"
        /\ Val(result).hourly_usage = <<>>
        /\ buckets # None => "error" \notin DOMAIN Val(result)

C14_Witness ==
    /\ EmptyInput
    /\ result # None
    /\ "error" \notin DOMAIN Val(result)
    /\ TimeOfDay(now) = MkDateTime(0, 23, 45, 0, 0)
    /\ Val(result).is_off_peak = FALSE

-----------------------------------------------------------------------------
(* OctopusClient.get_consumption, and the three record parsers side by side *)

\* the Consumption(...) expression raises ValueError or KeyError on this record
ConsumptionRaises(r) ==
    \/ KeyMissing(r.interval_start) \/ FromIsoRaises(ReplaceZ(Val(r.interval_start)))
    \/ KeyMissing(r.interval_end) \/ FromIsoRaises(ReplaceZ(Val(r.interval_end)))
    \/ KeyMissing(r.consumption)

ParseConsumption(r) ==
    [start |-> fromisoformat(ReplaceZ(Val(r.interval_start))),
     end |-> fromisoformat(ReplaceZ(Val(r.interval_end))),
     kwh |-> Val(r.consumption)]

\* The list comprehension of get_consumption: no record is parsed under a try,
\* so the first record that raises ends the call with its exception.
get_consumption(results) ==
    IF \E i \in 1..Len(results) : ConsumptionRaises(results[i])
    THEN [raised |-> TRUE, value |-> <<>>]
    ELSE [raised |-> FALSE, value |-> [i \in 1..Len(results) |-> ParseConsumption(results[i])]]

\* two well-formed dispatch records and the four malformed kinds
BatchDispatches ==
    { [start |-> Some(IsoString(HM(10, 0), "Z")), end |-> Some(IsoString(HM(11, 0), "Z"))],
      [start |-> Some(IsoString(HM(14, 0), "+01:00")), end |-> Some(IsoString(HM(15, 0), "+01:00"))],
      [start |-> Some(Unparseable), end |-> Some(IsoString(HM(11, 0), "Z"))],
      [start |-> Some(IsoString(HM(10, 0), "Z")), end |-> Some(Unparseable)],
      [start |-> None, end |-> Some(IsoString(HM(11, 0), "Z"))],
      [start |-> Some(IsoString(HM(10, 0), "Z")), end |-> None] }

\* a well-formed event that has ended at 12:00, one that has not, and the four
\* malformed kinds
BatchSessions ==
    { [startAt |-> Some(IsoString(HM(10, 0), "Z")), endAt |-> Some(IsoString(HM(11, 0), "Z"))],
      [startAt |-> Some(IsoString(HM(13, 0), "Z")), endAt |-> Some(IsoString(HM(14, 0), "Z"))],
      [startAt |-> Some(Unparseable), endAt |-> Some(IsoString(HM(14, 0), "Z"))],
      [startAt |-> Some(IsoString(HM(13, 0), "Z")), endAt |-> Some(Unparseable)],
      [startAt |-> None, endAt |-> Some(IsoString(HM(14, 0), "Z"))],
      [startAt |-> Some(IsoString(HM(13, 0), "Z")), endAt |-> None] }

\* two well-formed consumption records and the five malformed kinds
BatchConsumption ==
    { [interval_start |-> Some(IsoString(HM(10, 0), "Z")),
       interval_end |-> Some(IsoString(HM(10, 30), "Z")), consumption |-> Some(3)],
      [interval_start |-> Some(IsoString(HM(10, 30), "Z")),
       interval_end |-> Some(IsoString(HM(11, 0), "Z")), consumption |-> Some(5)],
      [interval_start |-> Some(Unparseable),
       interval_end |-> Some(IsoString(HM(10, 30), "Z")), consumption |-> Some(3)],
      [interval_start |-> Some(IsoString(HM(10, 0), "Z")),
       interval_end |-> Some(Unparseable), consumption |-> Some(3)],
      [interval_start |-> None,
       interval_end |-> Some(IsoString(HM(10, 30), "Z")), consumption |-> Some(3)],
      [interval_start |-> Some(IsoString(HM(10, 0), "Z")),
       interval_end |-> None, consumption |-> Some(3)],
      [interval_start |-> Some(IsoString(HM(10, 0), "Z")),
       interval_end |-> Some(IsoString(HM(10, 30), "Z")), consumption |-> None] }

\* either a dispatch batch and a session batch, or a consumption batch
InitRecords ==
    /\ now = HM(12, 0)
    /\ utcOffset = 0
    /\ RestIdle
    /\ tariff = None
    /\ RateIdle
    /\ dispatchesReturn = None /\ dispatch = None
    /\ sessions = None
    /\ UsageIdle
    /\ token = None /\ tokenExpires = None /\ callers = <<>>
    /\ AppIdle
    /\ consumptionReturn = None
    /\ \/ /\ plannedDispatches \in SeqUpTo(BatchDispatches, MaxRecords)
          /\ savingSessionEvents \in SeqUpTo(BatchSessions, MaxRecords)
          /\ consumptionResults = <<>>
       \/ /\ plannedDispatches = <<>>
          /\ savingSessionEvents = <<>>
          /\ consumptionResults \in SeqUpTo(BatchConsumption, MaxRecords)

\* one call of get_consumption
GetConsumption ==
    /\ consumptionReturn = None
    /\ consumptionReturn' = Some(get_consumption(consumptionResults))
    /\ UNCHANGED <<envVars, restVars, rate, dispatchVars, sessionVars, usageVars, appVars,
                   consumptionResults, token, tokenExpires, callers>>

NextRecords == GetDispatchStatus \/ GetSavingSessions \/ GetConsumption

SpecRecords == InitRecords /\ [][NextRecords]_vars

-----------------------------------------------------------------------------
(* Claims about malformed records *)

\* a timestamp field that is present and parses
FieldWellFormed(field) == field # None /\ Val(field).zone \in {"Z", "+00:00", "+01:00"}

\* the aware datetime a well-formed timestamp field stands for
FieldValue(field) == Aware(Val(field).wall, ZoneOffset(Val(field).zone))

\* the well-formed records of a dispatch batch, parsed, in the batch's order
RECURSIVE WellFormedDispatches(_)
WellFormedDispatches(raw) ==
    IF raw = <<>> THEN <<>>
    ELSE LET d == raw[1]
         IN  (IF FieldWellFormed(d.start) /\ FieldWellFormed(d.end)
              THEN << [start |-> FieldValue(d.start), end |-> FieldValue(d.end)] >>
              ELSE <<>>) \o WellFormedDispatches(Tail(raw))

\* the sequences a and b hold the same elements, each as often
SameElements(a, b) ==
    /\ Len(a) = Len(b)
    /\ \A i \in 1..Len(a) : Occurrences(a, a[i]) = Occurrences(b, a[i])

\* the sessions of a list whose end, read off the wall clock, is after t
RECURSIVE NotEndedAt(_, _)
NotEndedAt(xs, t) ==
    IF xs = <<>> THEN <<>>
    ELSE (IF xs[1].end.wall > t THEN <<xs[1]>> ELSE <<>>) \o NotEndedAt(Tail(xs), t)

RECURSIVE WellFormedConsumption(_)
WellFormedConsumption(results) ==
    IF results = <<>> THEN <<>>
    ELSE LET r == results[1]
         IN  (IF /\ FieldWellFormed(r.interval_start) /\ FieldWellFormed(r.interval_end)
                 /\ r.consumption # None
              THEN << [start |-> FieldValue(r.interval_start),
                       end |-> FieldValue(r.interval_end),
                       kwh |-> Val(r.consumption)] >>
              ELSE <<>>) \o WellFormedConsumption(Tail(results))

\* C16: get_consumption drops only the malformed records of a batch and returns
\* every well-formed record, without raising.
C16_MalformedDropped ==
    consumptionReturn # None =>
        /\ ~Val(consumptionReturn).raised
        /\ Val(consumptionReturn).value = WellFormedConsumption(consumptionResults)

-----------------------------------------------------------------------------
(* OctopusClient._get_token under concurrent callers *)

(* The menu bar runs each refresh in a thread of its own (_refresh_async), all *)
(* on the one OctopusClient of the app: the initial fetch, every firing of the *)
(* 30-second timer and every click on Refresh start one.  A caller stands      *)
(* "idle" outside _get_token, at "check" before line 77 is evaluated, and at   *)
(* "post" while its obtainKrakenToken request is awaited (lines 81-93).        *)

Callers == 1..MaxCallers

\* timedelta(minutes=55)
TokenLifetime == Minutes(55)

\* a cache test that still accepts the token at the instant of its expiry
TokenValidAtExpiry(t) == token # None /\ tokenExpires # None /\ t <= Val(tokenExpires)

\* self._token and self._token_expires and datetime.now() < self._token_expires
TokenValid(t) == token # None /\ tokenExpires # None /\ t < Val(tokenExpires)

InitToken ==
    /\ now = 0
    /\ utcOffset = 0
    /\ RestIdle
    /\ tariff = None
    /\ RateIdle
    /\ DispatchIdle
    /\ SessionsIdle
    /\ UsageIdle
    /\ consumptionResults = <<>> /\ consumptionReturn = None
    /\ token = None /\ tokenExpires = None
    /\ callers = [c \in Callers |-> "idle"]
    /\ AppIdle

\* a thread's _graphql calls _get_token
CallGetToken(c) ==
    /\ callers[c] = "idle"
    /\ callers' = [callers EXCEPT ![c] = "check"]
    /\ UNCHANGED <<envVars, restVars, rate, dispatchVars, sessionVars, usageVars, appVars,
                   consumptionResults, consumptionReturn, token, tokenExpires>>

\* line 77: the cached token is returned, or the request is sent
CheckToken(c) ==
    /\ callers[c] = "check"
    /\ callers' = [callers EXCEPT ![c] = IF TokenValid(now) THEN "idle" ELSE "post"]
    /\ UNCHANGED <<envVars, restVars, rate, dispatchVars, sessionVars, usageVars, appVars,
                   consumptionResults, consumptionReturn, token, tokenExpires>>

\* lines 94-102: the response holds a token, which is stored with its expiry
TokenObtained(c) ==
    /\ callers[c] = "post"
    /\ token' = Some([by |-> c, at |-> now])
    /\ tokenExpires' = Some(now + TokenLifetime)
    /\ callers' = [callers EXCEPT ![c] = "idle"]
    /\ UNCHANGED <<envVars, restVars, rate, dispatchVars, sessionVars, usageVars, appVars,
                   consumptionResults, consumptionReturn>>

\* lines 94-98: raise_for_status or an errors field raises
TokenRequestFails(c) ==
    /\ callers[c] = "post"
    /\ callers' = [callers EXCEPT ![c] = "idle"]
    /\ UNCHANGED <<envVars, restVars, rate, dispatchVars, sessionVars, usageVars, appVars,
                   consumptionResults, consumptionReturn, token, tokenExpires>>

\* half an hour passes
HalfHourPasses ==
    /\ now < MaxHalfHours * Minutes(30)
    /\ now' = now + Minutes(30)
    /\ UNCHANGED <<utcOffset, tariff, restVars, rate, dispatchVars, sessionVars, usageVars,
                   clientVars, appVars>>

NextToken ==
    \/ \E c \in Callers :
           CallGetToken(c) \/ CheckToken(c) \/ TokenObtained(c) \/ TokenRequestFails(c)
    \/ HalfHourPasses

SpecToken == InitToken /\ [][NextToken]_vars

\* the callers whose obtainKrakenToken request is in flight
InFlight == { c \in DOMAIN callers : callers[c] = "post" }

\* C17: at most one token-obtaining request of a client is in flight at any time.
C17_AtMostOneInFlight == Cardinality(InFlight) <= 1

-----------------------------------------------------------------------------
(* A refresh and its consumers: OctopusMenuBar._refresh against the title    *)
(* timer, MenuBarServer.fetch_data against the reader of stdout              *)

(* _refresh runs in a background thread and assigns each attribute of the    *)
(* app as soon as its request is answered; _update_title runs on the main    *)
(* thread every second and reads those attributes.  A data category is       *)
(* followed by the number of the refresh that last assigned it, 0 standing   *)
(* for the default of __init__.                                              *)

\* the attributes _refresh assigns, in the order of its awaits
MenuBarCategories ==
    << "balance", "tariff", "dispatch", "saving_sessions", "live_power", "usage" >>

\* the groups of keys fetch_data sets, in the order of its awaits
ServerCategories ==
    << "balance", "tariff", "dispatch", "charger_provider", "charge_history",
       "live_power", "saving_session", "usage" >>

\* every category at its default
Defaults(categories) == [i \in 1..Len(categories) |-> 0]

InitPublish ==
    /\ now = 0
    /\ utcOffset = 0
    /\ RestIdle
    /\ tariff = None
    /\ RateIdle
    /\ DispatchIdle
    /\ SessionsIdle
    /\ UsageIdle
    /\ ClientIdle
    /\ fields = Defaults(MenuBarCategories)
    /\ refreshStep = 0 /\ generation = 0 /\ titleView = None
    /\ serverStep = 0 /\ serverResult = Defaults(ServerCategories)
    /\ serverGeneration = 0 /\ stdout = None

\* _refresh_async starts a refresh thread (initial fetch, timer or menu item)
StartRefresh ==
    /\ refreshStep = 0
    /\ generation < MaxRefreshes
    /\ generation' = generation + 1
    /\ refreshStep' = 1
    /\ UNCHANGED <<envVars, restVars, rate, dispatchVars, sessionVars, usageVars, clientVars,
                   fields, titleView, serverStep, serverResult, serverGeneration, stdout>>

\* the next request of the refresh is answered and its attribute assigned
RefreshAssigns ==
    /\ refreshStep \in 1..Len(MenuBarCategories)
    /\ fields' = [fields EXCEPT ![refreshStep] = generation]
    /\ refreshStep' = IF refreshStep = Len(MenuBarCategories) THEN 0 ELSE refreshStep + 1
    /\ UNCHANGED <<envVars, restVars, rate, dispatchVars, sessionVars, usageVars, clientVars,
                   generation, titleView, serverStep, serverResult, serverGeneration, stdout>>

\* the next request of the refresh raises: "except Exception" prints and returns
RefreshRaises ==
    /\ refreshStep \in 1..Len(MenuBarCategories)
    /\ refreshStep' = 0
    /\ UNCHANGED <<envVars, restVars, rate, dispatchVars, sessionVars, usageVars, clientVars,
                   fields, generation, titleView,
                   serverStep, serverResult, serverGeneration, stdout>>

\* the 1-second timer runs _update_title, which reads the attributes
UpdateTitle ==
    /\ titleView' = Some(fields)
    /\ UNCHANGED <<envVars, restVars, rate, dispatchVars, sessionVars, usageVars, clientVars,
                   fields, refreshStep, generation,
                   serverStep, serverResult, serverGeneration, stdout>>

\* run() calls fetch_data, which starts from a dict of defaults
ServerStarts ==
    /\ serverStep = 0
    /\ serverGeneration < MaxRefreshes
    /\ serverGeneration' = serverGeneration + 1
    /\ serverResult' = Defaults(ServerCategories)
    /\ serverStep' = 1
    /\ UNCHANGED <<envVars, restVars, rate, dispatchVars, sessionVars, usageVars, clientVars,
                   fields, refreshStep, generation, titleView, stdout>>

\* the next request of fetch_data is answered and its keys set in the local dict
ServerSets ==
    /\ serverStep \in 1..Len(ServerCategories)
    /\ serverResult' = [serverResult EXCEPT ![serverStep] = serverGeneration]
    /\ serverStep' = serverStep + 1
    /\ UNCHANGED <<envVars, restVars, rate, dispatchVars, sessionVars, usageVars, clientVars,
                   fields, refreshStep, generation, titleView, serverGeneration, stdout>>

\* the next request of fetch_data raises: "except Exception" sets "error" and the
\* dict as it stands is returned
ServerRaises ==
    /\ serverStep \in 1..Len(ServerCategories)
    /\ serverStep' = Len(ServerCategories) + 1
    /\ UNCHANGED <<envVars, restVars, rate, dispatchVars, sessionVars, usageVars, clientVars,
                   fields, refreshStep, generation, titleView,
                   serverResult, serverGeneration, stdout>>

\* fetch_data returns and run() writes the dict to stdout
ServerOutputs ==
    /\ serverStep = Len(ServerCategories) + 1
    /\ stdout' = Some(serverResult)
    /\ serverStep' = 0
    /\ UNCHANGED <<envVars, restVars, rate, dispatchVars, sessionVars, usageVars, clientVars,
                   fields, refreshStep, generation, titleView,
                   serverResult, serverGeneration>>

NextPublish ==
    \/ StartRefresh \/ RefreshAssigns \/ RefreshRaises \/ UpdateTitle
    \/ ServerStarts \/ ServerSets \/ ServerRaises \/ ServerOutputs

SpecPublish == InitPublish /\ [][NextPublish]_vars

\* every category of a snapshot comes from the same refresh
OneRefresh(snapshot) == \A i, j \in DOMAIN snapshot : snapshot[i] = snapshot[j]

\* C18: no consumer observes a snapshot in which some categories come from the
\* refresh in progress and others from an earlier refresh or the defaults: not
\* the title timer reading the menu bar's attributes, not the reader of stdout.
C18_GatherThenPublish ==
    /\ titleView # None => OneRefresh(Val(titleView))
    /\ stdout # None => OneRefresh(Val(stdout))

\* what holds of the server: a snapshot on stdout mixes nothing but the call
\* that wrote it with the defaults that call started from (a request raised)
ServerMixesOnlyDefaults ==
    stdout # None =>
        \E g \in 1..MaxRefreshes : \A i \in DOMAIN Val(stdout) : Val(stdout)[i] \in {0, g}

-----------------------------------------------------------------------------
(* Claims about the monthly projection *)

\* m is x rounded to two decimals of a pound: a multiple of 100 units nearest x
IsRounded(m, x) == m % 100 = 0 /\ m - x \in -50..50

\* C19 as claimed: monthly_projection is the cost of the day reported as today
\* times 30, whenever that cost is positive.
C19_ProjectionFromToday ==
    (result # None /\ Val(result).today_cost > 0) =>
        IsRounded(Val(result).monthly_projection, Val(result).today_cost * 30)

\* C19 as amended: monthly_projection is the cost of the day reported as
\* yesterday times 30 when that cost is positive, else the cost of the day
\* reported as today times 30 when that is positive, else 0 (rounded to pence).
C19_ProjectionFromYesterdayFirst ==
    result # None =>
        LET r == Val(result)
        IN  IF r.yesterday_cost > 0
            THEN IsRounded(r.monthly_projection, r.yesterday_cost * 30)
            ELSE IF r.today_cost > 0
                 THEN IsRounded(r.monthly_projection, r.today_cost * 30)
                 ELSE r.monthly_projection = 0

C19_Witness ==
    /\ result # None
    /\ Val(result).yesterday_cost > 0
    /\ Val(result).today_cost > Val(result).yesterday_cost + 10
    /\ Val(result).data_date_latest # Val(result).data_date_previous
    /\ IsRounded(Val(result).monthly_projection, Val(result).yesterday_cost * 30)
    /\ ~IsRounded(Val(result).monthly_projection, Val(result).today_cost * 30)

-----------------------------------------------------------------------------
(* Claims about the rates get_current_rate reports *)

\* C20: rate is the tariff's parsed unit rate of the current band and next_rate
\* that of the other band whenever the tariff holds a parsed value for the band
\* (any value, 0 included); the default (off-peak 7.0, peak 30.0) is returned for
\* a band only when the tariff holds no parsed value for it.
C20_ParsedRateOrDefault ==
    rate # None =>
        LET offPeak == RateOrDefault(Val(tariff).off_peak_rate, 7)
            peak == RateOrDefault(Val(tariff).peak_rate, 30)
        IN  IF Val(rate).is_off_peak
            THEN Val(rate).rate = offPeak /\ Val(rate).next_rate = peak
            ELSE Val(rate).rate = peak /\ Val(rate).next_rate = offPeak

-----------------------------------------------------------------------------
(* Claims about the time reference of the saving-session filter *)

\* C21: for every UTC offset of the host, an offset-aware event is kept if and
\* only if its end instant is after the current instant: a session still running
\* is never dropped and a session that has ended is never kept.
C21_SameTimeReference ==
    sessions # None =>
        LET wf == WellFormedSessions(savingSessionEvents)
        IN  \A i \in 1..Len(wf) :
                Occurrences(Val(sessions), wf[i]) > 0 <=> Instant(wf[i].end) > NowInstant

\* ---------------------------------------------------------------------------
\* MenuBarServer.run: the command loop over stdin
\* ---------------------------------------------------------------------------

MaxLines == 3

\* What a line of stdin can be, by the branch of run() it takes.
\*   "blank"      only whitespace before the newline
\*   "invalid"    not JSON
\*   "notObject"  JSON, but not an object: cmd.get raises AttributeError
\*   "refresh"    {"command": "refresh"}
\*   "ask"        {"command": "ask", "question": <non-empty>}
\*   "askNothing" {"command": "ask"} with no question or an empty one
\*   "quit"       {"command": "quit"}
\*   "unknown"    an object with any other command, or none
LineKinds ==
    {"blank", "invalid", "notObject", "refresh", "ask", "askNothing", "quit", "unknown"}

\* What agent.ask does when it is called.
AgentOutcomes == {"answers", "raises"}

\* handle_ask: the base response with "error" when the agent is not installed or
\* raises, with "response" when it answers.
handle_ask(agent) ==
    IF ~hasAgent THEN "error"
    ELSE IF agent = "answers" THEN "answer" ELSE "error"

\* A loop body that also answers a blank line with an error object.
ReplyAlsoToBlank(line, agent) ==
    CASE line = "refresh"    -> <<"snapshot">>
      [] line = "ask"        -> <<handle_ask(agent)>>
      [] line = "quit"       -> <<>>
      [] OTHER               -> <<"error">>

\* The body of the loop in run() after a line was read: the kinds of the objects
\* it writes to stdout for that line.
Reply(line, agent) ==
    CASE line = "blank"      -> <<>>
      [] line = "invalid"    -> <<"error">>
      [] line = "notObject"  -> <<"error">>
      [] line = "refresh"    -> <<"snapshot">>
      [] line = "ask"        -> <<handle_ask(agent)>>
      [] line = "askNothing" -> <<"error">>
      [] line = "quit"       -> <<>>
      [] line = "unknown"    -> <<"error">>

\* The loop is left after this line.
Breaks(line) == line = "quit"

Tagged(kinds, n) == [i \in 1..Len(kinds) |-> [line |-> n, kind |-> kinds[i]]]

RECURSIVE SeqsUpTo(_, _)
SeqsUpTo(S, n) ==
    IF n = 0 THEN {<<>>}
    ELSE LET shorter == SeqsUpTo(S, n - 1)
         IN  shorter \cup {Append(q, x) : q \in {r \in shorter : Len(r) = n - 1}, x \in S}

InitRun ==
    /\ now = 0 /\ utcOffset = 0 /\ tariff = None
    /\ RateIdle /\ DispatchIdle /\ SessionsIdle /\ UsageIdle /\ ClientIdle /\ AppIdle
    /\ BalanceIdle /\ HttpIdle
    /\ stdinLines \in SeqsUpTo(LineKinds, MaxLines)
    /\ hasAgent \in BOOLEAN
    /\ linesRead = 0
    /\ emitted = <<>>
    /\ runState = "start"

RunUnchanged ==
    UNCHANGED <<envVars, rate, dispatchVars, sessionVars, usageVars, clientVars, appVars,
                stdinLines, hasAgent, balanceVars, httpVars>>

\* run(), before the loop: fetch_data and _output.
RunStarts ==
    /\ runState = "start"
    /\ emitted' = Append(emitted, [line |-> 0, kind |-> "snapshot"])
    /\ runState' = "reading"
    /\ UNCHANGED linesRead
    /\ RunUnchanged

\* readline returns a line.
ReadLine ==
    /\ runState = "reading"
    /\ linesRead < Len(stdinLines)
    /\ linesRead' = linesRead + 1
    /\ runState' = "handling"
    /\ UNCHANGED emitted
    /\ RunUnchanged

\* readline returns the empty string: end of input.
ReadEndOfInput ==
    /\ runState = "reading"
    /\ linesRead = Len(stdinLines)
    /\ runState' = "stopped"
    /\ UNCHANGED <<linesRead, emitted>>
    /\ RunUnchanged

\* The rest of the loop body for the line just read.
HandleLine ==
    /\ runState = "handling"
    /\ \E agent \in AgentOutcomes :
           emitted' = emitted \o Tagged(Reply(stdinLines[linesRead], agent), linesRead)
    /\ runState' = IF Breaks(stdinLines[linesRead]) THEN "stopped" ELSE "reading"
    /\ UNCHANGED linesRead
    /\ RunUnchanged

NextRun == RunStarts \/ ReadLine \/ ReadEndOfInput \/ HandleLine

SpecRun == InitRun /\ [][NextRun]_vars

\* What the loop owes for a line: nothing for a blank line and for quit, one
\* object of these kinds for every other line.
OwedKinds(line) ==
    CASE line \in {"blank", "quit"} -> {}
      [] line = "refresh"           -> {"snapshot"}
      [] line = "ask"               -> {"answer", "error"}
      [] OTHER                      -> {"error"}

AnsweredLines(n) == {i \in 1..n : OwedKinds(stdinLines[i]) # {}}

EmittedFor(i) == {j \in 1..Len(emitted) : emitted[j].line = i}

\* The lines whose handling is over.
LinesHandled == IF runState = "handling" THEN linesRead - 1 ELSE linesRead

\* C22: run() emits one snapshot before it reads anything; whenever it is about to
\* read or has stopped, stdout holds, in input order, exactly one object of the
\* owed kind for every line read that is neither blank nor quit, and none for the
\* others; it reads nothing after quit, and it has stopped only after quit or at
\* the end of input.
C22_OneObjectPerCommand ==
    /\ runState = "start" <=> emitted = <<>>
    /\ runState = "start" => linesRead = 0
    /\ runState # "start" =>
           /\ emitted[1] = [line |-> 0, kind |-> "snapshot"]
           /\ Len(emitted) = 1 + Cardinality(AnsweredLines(LinesHandled))
           /\ \A i \in 1..LinesHandled :
                  IF i \in AnsweredLines(LinesHandled)
                  THEN /\ Cardinality(EmittedFor(i)) = 1
                       /\ \A j \in EmittedFor(i) : emitted[j].kind \in OwedKinds(stdinLines[i])
                  ELSE EmittedFor(i) = {}
           /\ \A j \in 1..(Len(emitted) - 1) : emitted[j].line < emitted[j + 1].line
    /\ \A i \in 1..(linesRead - 1) : stdinLines[i] # "quit"
    /\ runState = "reading" => (linesRead > 0 => stdinLines[linesRead] # "quit")
    /\ runState = "stopped" =>
           \/ linesRead > 0 /\ stdinLines[linesRead] = "quit"
           \/ linesRead = Len(stdinLines)

\* Three lines were read: a blank one, a command that failed and a refresh; the
\* loop went on to the end of input.
C22_Witness ==
    /\ runState = "stopped"
    /\ stdinLines = <<"blank", "notObject", "refresh">>
    /\ linesRead = 3
    /\ Len(emitted) = 3

\* ---------------------------------------------------------------------------
\* OctopusClient._get_token, one call after the other
\* ---------------------------------------------------------------------------

\* The steps by which the clock moves between and during calls: 25 and 30
\* minutes, so that a call can fall before, exactly at and after the expiry.
ClockSteps == {Minutes(25), Minutes(30)}

MinutesPass ==
    /\ now < MaxHalfHours * Minutes(30)
    /\ \E d \in ClockSteps : now' = now + d
    /\ UNCHANGED <<utcOffset, tariff, restVars, rate, dispatchVars, sessionVars, usageVars,
                   clientVars, appVars>>

\* _get_token is entered only when no other call of it is under way.
SequentialCall(c) ==
    /\ \A d \in Callers : callers[d] = "idle"
    /\ CallGetToken(c)

NextTokenSequential ==
    \/ \E c \in Callers :
           SequentialCall(c) \/ CheckToken(c) \/ TokenObtained(c) \/ TokenRequestFails(c)
    \/ MinutesPass

SpecTokenSequential == InitToken /\ [][NextTokenSequential]_vars

\* A token is cached and the clock is before the 55th minute after it was obtained.
CachedAndFresh == token # None /\ now < Val(token).at + Minutes(55)

\* C23: a call that finds a token cached and the clock before its expiry returns
\* without a request and leaves the cache alone; a call that finds no token, or
\* the clock at or after the expiry, sends a request; a request that succeeds
\* stores a token obtained now with an expiry 55 minutes from now; a request that
\* fails leaves token and expiry as they were.
C23_SequentialTokenCache ==
    [][\A c \in Callers :
           /\ (callers[c] = "check" /\ callers'[c] # "check") =>
                  /\ CachedAndFresh  => callers'[c] = "idle" /\ UNCHANGED <<token, tokenExpires>>
                  /\ ~CachedAndFresh => callers'[c] = "post" /\ UNCHANGED <<token, tokenExpires>>
           /\ (callers[c] = "post" /\ callers'[c] # "post") =>
                  /\ callers'[c] = "idle"
                  /\ \/ /\ token' # None /\ Val(token').at = now
                        /\ tokenExpires' = Some(now + Minutes(55))
                     \/ UNCHANGED <<token, tokenExpires>>
           /\ callers' = callers => UNCHANGED <<token, tokenExpires>>
      ]_vars

\* A token obtained at 0:00 expired at 0:55, and a call made exactly then has
\* stored a new one that expires at 1:50.
C23_Witness ==
    /\ token # None
    /\ Val(token).at = Minutes(55)
    /\ tokenExpires = Some(Minutes(110))
    /\ \A c \in Callers : callers[c] = "idle"

\* ---------------------------------------------------------------------------
\* Claims about the series of a snapshot
\* ---------------------------------------------------------------------------

\* the readings that start on the day, in the half hour slot
ReadingsInSlot(day, slot) ==
    { i \in 1..Len(consumption) :
        /\ strftime_Ymd(consumption[i].start.wall) = day
        /\ HalfHourOfDay(consumption[i].start.wall) = slot }

\* what the slot of a day holds: the kwh of the last reading filed in it, 0
\* when there is none
StoredInSlot(day, slot) ==
    IF ReadingsInSlot(day, slot) = {} THEN 0
    ELSE consumption[SetMax(ReadingsInSlot(day, slot))].kwh

\* the bucket of an hour of a day: the kwh of the readings starting in that hour
KwhOfHour(day, hour) ==
    KwhOfSlot(1, Len(consumption), day, 2 * hour)
    + KwhOfSlot(1, Len(consumption), day, 2 * hour + 1)

C25_DistinctDays ==
    (result # None /\ "error" \notin DOMAIN Val(result) /\ ReadingDays # {}) =>
        Val(result).data_date_latest # Val(result).data_date_previous

\* ---------------------------------------------------------------------------
\* The account balance in the server's snapshot and in the menu
\* ---------------------------------------------------------------------------

MaxPence == 15

\* the balances get_account can return, in pence
AccountBalances == (0 - MaxPence)..MaxPence

\* abs(x)
Abs(x) == IF x < 0 THEN 0 - x ELSE x

\* fetch_data: result["balance"] and result["balance_is_credit"]
ServerBalanceKeys(balance) ==
    [balance |-> Abs(balance), balance_is_credit |-> balance > 0]

\* _update_menu: the amount and the word of the balance item
BalanceItemTitle(balance) ==
    IF balance < 0 THEN [amount |-> Abs(balance), word |-> "credit"]
    ELSE [amount |-> balance, word |-> "owed"]

InitBalance ==
    /\ now = 0 /\ utcOffset = 0 /\ tariff = None
    /\ RateIdle /\ DispatchIdle /\ SessionsIdle /\ UsageIdle /\ ClientIdle /\ AppIdle
    /\ RunIdle /\ HttpIdle
    /\ accountBalance \in AccountBalances
    /\ serverBalance = None
    /\ balanceItem = None

\* fetch_data of the server, up to the balance keys
ServerFetchesBalance ==
    /\ serverBalance = None
    /\ serverBalance' = Some(ServerBalanceKeys(accountBalance))
    /\ UNCHANGED <<envVars, rate, dispatchVars, sessionVars, usageVars, clientVars, appVars,
                   runVars, httpVars, accountBalance, balanceItem>>

\* _refresh of the menu bar assigns self.balance and _update_menu shows it
MenuShowsBalance ==
    /\ balanceItem = None
    /\ balanceItem' = Some(BalanceItemTitle(accountBalance))
    /\ UNCHANGED <<envVars, rate, dispatchVars, sessionVars, usageVars, clientVars, appVars,
                   runVars, httpVars, accountBalance, serverBalance>>

NextBalance == ServerFetchesBalance \/ MenuShowsBalance

SpecBalance == InitBalance /\ [][NextBalance]_vars

\* C26: once both front ends have shown the balance of the account, the server
\* says credit exactly when the menu says credit.
C26_SameClassification ==
    (serverBalance # None /\ balanceItem # None) =>
        (Val(serverBalance).balance_is_credit <=> Val(balanceItem).word = "credit")

\* ---------------------------------------------------------------------------
\* The keys of a snapshot against the base response
\* ---------------------------------------------------------------------------

\* the keys of the dict fetch_data starts from
FetchInitialKeys ==
    {"timestamp", "live_power_watts", "rate", "is_off_peak", "rate_ends_in_seconds",
     "balance", "balance_is_credit", "dispatch_status", "dispatch_end",
     "next_dispatch_start", "next_dispatch_end", "yesterday_kwh", "yesterday_cost",
     "today_kwh", "today_cost", "hourly_usage", "live_history", "tariff_name",
     "standing_charge", "has_saving_session", "saving_session_start",
     "saving_session_end", "saving_session_active", "off_peak_start", "off_peak_end",
     "off_peak_percentage", "monthly_projection", "peak_rate", "off_peak_rate",
     "charger_provider", "charge_history"}

\* the keys of the dict _base_response returns
BaseResponseKeys == FetchInitialKeys \cup {"half_hourly_usage"}

\* the keys of a snapshot: those fetch_data starts from and those it set since
SnapshotKeys(r) == FetchInitialKeys \cup DOMAIN r

\* C27: every snapshot fetch_data returns has every key of the base response.
C27_HasBaseResponseKeys ==
    result # None => BaseResponseKeys \subseteq SnapshotKeys(Val(result))

\* ---------------------------------------------------------------------------
\* The HTTP session of the app's client under overlapping refreshes
\* ---------------------------------------------------------------------------

(* Every refresh of the menu bar runs _refresh in a thread of its own, inside  *)
(* "async with self.client" on the one client of the app.  A refresh thread is *)
(* "idle" before it starts, "inside" the block between two requests,           *)
(* "awaiting" while a request is posted, "closing" while __aexit__ awaits      *)
(* aclose, and "done" when it has left the block.                              *)

\* the requests of one _refresh: account, tariff, dispatch status, saving
\* sessions, live power, consumption
RefreshRequests == Len(MenuBarCategories)

InitHttp ==
    /\ now = 0 /\ utcOffset = 0 /\ tariff = None
    /\ RateIdle /\ DispatchIdle /\ SessionsIdle /\ UsageIdle /\ ClientIdle /\ AppIdle
    /\ RunIdle /\ BalanceIdle
    /\ http = None
    /\ sessionsMade = 0
    /\ released = {}
    /\ refreshers = [r \in Callers |-> [pc |-> "idle", sent |-> 0, session |-> None]]

HttpUnchanged ==
    UNCHANGED <<envVars, rate, dispatchVars, sessionVars, usageVars, clientVars, appVars,
                runVars, balanceVars>>

\* _refresh_async starts the thread and __aenter__ runs:
\* self._http = httpx.AsyncClient()
EnterClient(r) ==
    /\ refreshers[r].pc = "idle"
    /\ sessionsMade' = sessionsMade + 1
    /\ http' = Some(sessionsMade + 1)
    /\ refreshers' = [refreshers EXCEPT ![r].pc = "inside"]
    /\ UNCHANGED released
    /\ HttpUnchanged

\* _graphql: http = await self._get_http(), which creates a session when
\* self._http is None, then http.post is awaited
PostRequest(r) ==
    /\ refreshers[r].pc = "inside"
    /\ refreshers[r].sent < RefreshRequests
    /\ LET created == http = None
           session == IF created THEN sessionsMade + 1 ELSE Val(http)
       IN  /\ sessionsMade' = IF created THEN sessionsMade + 1 ELSE sessionsMade
           /\ http' = Some(session)
           /\ refreshers' = [refreshers EXCEPT ![r] =
                                 [pc |-> "awaiting", sent |-> @.sent + 1,
                                  session |-> Some(session)]]
    /\ UNCHANGED released
    /\ HttpUnchanged

\* the request is answered
RequestReturns(r) ==
    /\ refreshers[r].pc = "awaiting"
    /\ refreshers' = [refreshers EXCEPT ![r].pc = "inside"]
    /\ UNCHANGED <<http, sessionsMade, released>>
    /\ HttpUnchanged

\* the request raises: the block is left with no further request
RequestRaises(r) ==
    /\ refreshers[r].pc = "awaiting"
    /\ refreshers' = [refreshers EXCEPT ![r] = [@ EXCEPT !.pc = "inside", !.sent = RefreshRequests]]
    /\ UNCHANGED <<http, sessionsMade, released>>
    /\ HttpUnchanged

\* __aexit__, first half: if self._http: await self._http.aclose()
ExitCloses(r) ==
    /\ refreshers[r].pc = "inside"
    /\ refreshers[r].sent = RefreshRequests
    /\ IF http # None
       THEN /\ released' = released \cup {[session |-> Val(http), by |-> r]}
            /\ refreshers' = [refreshers EXCEPT ![r].pc = "closing"]
       ELSE /\ refreshers' = [refreshers EXCEPT ![r].pc = "done"]
            /\ UNCHANGED released
    /\ UNCHANGED <<http, sessionsMade>>
    /\ HttpUnchanged

\* __aexit__, second half: self._http = None
ExitDiscards(r) ==
    /\ refreshers[r].pc = "closing"
    /\ http' = None
    /\ released' = IF http # None
                   THEN released \cup {[session |-> Val(http), by |-> r]}
                   ELSE released
    /\ refreshers' = [refreshers EXCEPT ![r].pc = "done"]
    /\ UNCHANGED sessionsMade
    /\ HttpUnchanged

NextHttp ==
    \E r \in Callers :
        \/ EnterClient(r) \/ PostRequest(r) \/ RequestReturns(r) \/ RequestRaises(r)
        \/ ExitCloses(r) \/ ExitDiscards(r)

SpecHttp == InitHttp /\ [][NextHttp]_vars

\* the refresh has sent its first request and not yet had the answer to its last
MidRequests(r) ==
    /\ refreshers[r].session # None
    /\ \/ refreshers[r].pc = "awaiting"
       \/ refreshers[r].pc = "inside" /\ refreshers[r].sent < RefreshRequests

\* C28: no session has been closed or dropped by the __aexit__ of one refresh
\* while another refresh that obtained it is between its first and last request.
C28_SessionOutlivesItsUsers ==
    \A r \in DOMAIN refreshers :
        MidRequests(r) =>
            ~ \E x \in released : x.session = Val(refreshers[r].session) /\ x.by # r

====
